---- MODULE Spec2Model ----
(***************************************************************************)
(* Repository context extraction and caching pipeline of gitmermaid.       *)
(*                                                                         *)
(*   extractRepoContextRobust.js  extractRepoContextRobust (the pipeline), *)
(*                                extractRepoContext (the file walk),      *)
(*                                processFileContent, validateRepoUrl,     *)
(*                                classifyCloneError                       *)
(*   vite.config.ts               the file based cache (diagramCache):     *)
(*                                getCachedExtraction, setCachedExtraction *)
(*                                                                         *)
(* Text is modelled by its length (a digest is a sequence of part lengths  *)
(* plus the data that makes two digests differ), a locator by its parsed   *)
(* shape (scheme, host, path segments, ".git" suffix).                     *)
(***************************************************************************)
EXTENDS Integers, Sequences, FiniteSets, TLC

VARIABLES
  pc,             \* position of the running call
  calls,          \* number of calls of extractRepoContextRobust started
  clock,          \* Date.now()
  cacheIndex,     \* cache/index.json : normalized url -> entry
  cacheFiles,     \* cache/extractions/ : filename -> content
  repoUrl,        \* argument of the running call
  options,        \* argument of the running call
  startTime,
  tempDir,        \* the local variable: "null" or "set"
  workspace,      \* the temporary directory on disk: "absent", "exists", "removed"
  rmFailed,       \* whether fs.rmSync of the temporary directory has thrown
  cloneInvoked,   \* whether the running call has run git clone
  repo,           \* the working tree in cloneDir
  result,         \* the value returned by the running call
  prev,           \* the previous call: locator, useCache, and its result (of a failure the type only)
  filteredFiles,  \* extractRepoContext locals
  idx,
  outputParts,
  outputChars,
  fileCount,
  skippedCount,
  totalSize,
  processedFiles,
  skippedFiles,
  fsCalls,        \* the calls of fs.statSync and fs.readFileSync the loop has made
  rootDir,        \* generateDirectoryTree: the directory it is called on
  maxItems,       \* generateDirectoryTree: its limit
  treeLines,      \* generateDirectoryTree: its array lines, the lines pushed so far
  itemCount,
  dirsRead,       \* the value of itemCount at each fs.readdirSync
  handler,        \* /api/generate-diagram: position of the handler of one request
  request,        \* req.body.repoUrl
  response,       \* what the handler has sent
  aiCalled,       \* whether model.generateContent was called
  caller,         \* generateDiagram of the client: Null, then fetching, resolved or rejected
  pipelines,      \* concurrent calls: request -> its stage, its tempDir, whose clone it read
  tempDirs,       \* the directories temp-extraction-* on disk: name -> who made it, who cloned into it
  tasks,          \* runWithConcurrencyLimit: for each task how its promise settles
  limit,          \* runWithConcurrencyLimit: its second argument
  taskState,      \* each task: "new", "running", "resolved", "rejected"
  executing,      \* the array executing (tasks by their index)
  results,        \* the array results (tasks by their index)
  nextTask,       \* the position of the for loop
  runner,         \* where runWithConcurrencyLimit is: "idle", "loop", "racing", "joining", "resolved", "rejected"
  raced,          \* the promises handed to the Promise.race that is awaited
  started,        \* the tasks in the order they were called
  settled,        \* the tasks in the order they settled
  returned,       \* the value runWithConcurrencyLimit resolved with
  diagram,        \* validateMermaidDiagram: its argument diagramCode
  validationResult, \* validateMermaidDiagram: the ValidationResult it returns
  cacheCalls      \* calls that overlap and use the cache: stage, key, result, times, what get returned

pipeVars == <<calls, clock, cacheIndex, cacheFiles, repoUrl, startTime,
              tempDir, workspace, rmFailed, cloneInvoked, result, prev>>
walkVars == <<filteredFiles, idx, outputParts, outputChars, fileCount,
              skippedCount, totalSize, processedFiles, skippedFiles, fsCalls>>
treeVars == <<rootDir, maxItems, treeLines, itemCount, dirsRead>>
apiVars == <<handler, request, response, aiCalled, caller>>
concVars == <<pipelines, tempDirs>>
limitVars == <<tasks, limit, taskState, executing, results, nextTask, runner, raced,
               started, settled, returned>>
mermaidVars == <<diagram, validationResult>>
toolVars == <<limitVars, mermaidVars, cacheCalls>>
otherVars == <<treeVars, apiVars, concVars, toolVars>>
vars == <<pc, options, repo, pipeVars, walkVars, otherVars>>

(***************************************************************************)
(* Bounds of the model.                                                    *)
(***************************************************************************)
MaxCandidates == 3      \* longest candidate list of the walk specification
MaxCalls == 2           \* calls of extractRepoContextRobust in one behaviour
MaxEntries == 3         \* most entries of the root directory of a rendered tree
MaxTasks == 3           \* longest task list of runWithConcurrencyLimit
MaxChars == 4           \* longest diagram text, in brackets and line breaks

Null == [null |-> TRUE]      \* null / undefined / "nothing returned yet"

(***************************************************************************)
(* Arithmetic helpers.                                                     *)
(***************************************************************************)
RECURSIVE SumSeq(_)
SumSeq(s) == IF s = <<>> THEN 0 ELSE Head(s) + SumSeq(Tail(s))

\* number of characters of the decimal rendering of a natural number
RECURSIVE Digits(_)
Digits(n) == IF n < 10 THEN 1 ELSE 1 + Digits(n \div 10)

Min(a, b) == IF a < b THEN a ELSE b

(***************************************************************************)
(* processFileContent: a file's text is the sequence of the lengths of its *)
(* lines (content.split('\n'), so there is always at least one line).      *)
(* The result is the list of kept line lengths and the length of the       *)
(* truncation notice appended to them.                                     *)
(***************************************************************************)
\* variant: a long line is kept whole
TruncateLineUncut(len, maxLineLength) == len

\* line.substring(0, maxLineLength) + '...'
TruncateLine(len, maxLineLength) ==
  IF len > maxLineLength THEN maxLineLength + 3 ELSE len

processFileContent(lines, maxLines, maxLineLength) ==
  LET truncatedLines == Len(lines) > maxLines
      kept == IF truncatedLines THEN SubSeq(lines, 1, maxLines) ELSE lines
      truncatedChars == \E i \in 1..Len(kept) : kept[i] > maxLineLength
      processedLines == [i \in 1..Len(kept) |-> TruncateLine(kept[i], maxLineLength)]
      lineNotice == IF truncatedLines
                    THEN 18 + Digits(Len(lines) - maxLines) + 12
                    ELSE 0
      charNotice == IF truncatedChars
                    THEN (IF truncatedLines THEN 15 ELSE 34)
                    ELSE 0
  IN [lines |-> processedLines, notice |-> lineNotice + charNotice,
      omitted |-> IF truncatedLines THEN Len(lines) - maxLines ELSE 0]

\* length of processedLines.join('\n') plus the notices
ProcessedLength(p) ==
  SumSeq(p.lines) + (IF Len(p.lines) > 0 THEN Len(p.lines) - 1 ELSE 0) + p.notice

\* `--- ${file} ---\n\n${processedContent}\n\n`
FileSectionLength(file, processed) ==
  4 + file.pathLen + 6 + ProcessedLength(processed) + 2

(***************************************************************************)
(* The head of the digest: metadata header, directory tree and exclusion   *)
(* summary, as the lengths of the parts pushed on outputParts.             *)
(***************************************************************************)
ExcludedPatterns(opts, tree) ==
  (IF opts.respectGitIgnore
   THEN [i \in 1..(Len(tree.gitignore) + 1) |->
           12 + (IF i <= Len(tree.gitignore) THEN tree.gitignore[i] ELSE 4)]
   ELSE <<>>)
  \o (IF opts.respectGeminiIgnore
      THEN [i \in 1..Len(tree.geminiignore) |-> 15 + tree.geminiignore[i]]
      ELSE <<>>)
  \o (IF opts.useDefaultExcludes THEN <<51>> ELSE <<>>)

HeaderParts(opts, tree) ==
  LET excludedPatterns == ExcludedPatterns(opts, tree)
  IN <<27, 16 + tree.rootLen + 1, 11 + 24 + 1, 29, tree.treeLen, 1, 26>>
     \o (IF Len(excludedPatterns) > 0
         THEN [i \in 1..Len(excludedPatterns) |-> 2 + excludedPatterns[i] + 1]
         ELSE <<5>>)
     \o <<1, 23>>

ReasonLength(reason) ==
  CASE reason = "max files limit reached" -> 23
    [] reason = "file too large" -> 14
    [] reason = "not a text file" -> 15
    [] reason = "character limit reached" -> 23
    [] reason = "read error" -> 10

\* the summary footer pushed after the walk
SummaryParts(count, skipped, size, skippedList) ==
  LET shown == SubSeq(skippedList, 1, Min(10, Len(skippedList)))
      entries == [i \in 1..Len(shown) |->
                    2 + shown[i].pathLen + 2 + ReasonLength(shown[i].reason) + 2]
  IN <<16, 16 + Digits(count) + 1, 15 + Digits(skipped) + 1,
       12 + Digits(size \div 1024) + 3 + 4>>
     \o (IF Len(skippedList) > 0 /\ Len(skippedList) <= 10 THEN <<16>> \o entries
         ELSE IF Len(skippedList) > 10
              THEN <<28 + Digits(Len(skippedList)) + 3>> \o entries
              ELSE <<>>)

(***************************************************************************)
(* Program constants.                                                      *)
(***************************************************************************)
MAX_FILE_SIZE == 5 * 1024 * 1024
MAX_OUTPUT_CHARS == 50 * 1000
MAX_FILES == 500
MAX_LINES_PER_FILE == 1000
MAX_LINE_LENGTH == 2000
CACHE_EXPIRY_MS == 24 * 60 * 60 * 1000
CLONE_TIMEOUT_MS == 60000
MAX_TREE_ITEMS == 200
DEFAULT_IGNORED_FOLDERS == {"node_modules", ".git", "dist", "build", "coverage"}

(***************************************************************************)
(* Locators.  A locator is the parse of the string: its scheme, its host,  *)
(* its path segments and whether the string ends in ".git".  Two strings   *)
(* are equal exactly when their parses are.                                *)
(***************************************************************************)
Url(scheme, host, segs, dotGit) ==
  [scheme |-> scheme, host |-> host, segs |-> segs, dotGit |-> dotGit]

EmptyUrl == Url("", "", <<>>, FALSE)                                 \* ""
NotAUrl == Url("", "", <<"not-a-valid-url">>, FALSE)                 \* "not-a-valid-url"
GitHubRepo == Url("https", "github.com", <<"user", "repo">>, FALSE)
GitHubRepoGit == Url("https", "github.com", <<"user", "repo">>, TRUE)
OtherHostRepo == Url("https", "example.com", <<"user", "repo">>, FALSE)
OtherHostRepoGit == Url("https", "example.com", <<"user", "repo">>, TRUE)

Locators == {EmptyUrl, NotAUrl, GitHubRepo, GitHubRepoGit, OtherHostRepo, OtherHostRepoGit}

\* the four entries of gitPatterns
MatchesGitPattern(url, n) ==
  CASE n = 1 -> url.scheme = "https" /\ url.host = "github.com" /\ Len(url.segs) = 2
    [] n = 2 -> url.scheme = "https" /\ url.host = "gitlab.com" /\ Len(url.segs) >= 1
    [] n = 3 -> url.scheme = "https" /\ url.host = "bitbucket.org" /\ Len(url.segs) = 2
    [] n = 4 -> url.scheme = "https" /\ url.host # "" /\ url.dotGit

validateRepoUrl(url) ==
  IF url = EmptyUrl
    THEN [valid |-> FALSE, error |-> "URL is required and must be a string"]
  ELSE IF url.scheme = ""                     \* new URL(trimmedUrl) throws
    THEN [valid |-> FALSE, error |-> "Invalid URL format"]
  ELSE IF ~ \E n \in 1..4 : MatchesGitPattern(url, n)
    THEN [valid |-> FALSE, error |-> "URL does not appear to be a valid Git repository URL"]
  ELSE [valid |-> TRUE]

\* variant: the suffix is kept
NormalizeUrlIdentity(url) == url

\* repoUrl.replace(/\.git$/, '')
NormalizeUrl(url) == [url EXCEPT !.dotGit = FALSE]

(***************************************************************************)
(* The cache store.                                                        *)
(***************************************************************************)
\* an md5 prefix of the url plus its last two path parts
generateFilename(normalizedUrl) ==
  [repoName |-> normalizedUrl.segs, hash |-> normalizedUrl]

CacheKeys == {NormalizeUrl(u) : u \in Locators}
CacheFilenames == {generateFilename(k) : k \in CacheKeys}

\* variant: an entry whose age is exactly the window counts as expired
IsExpiredAtWindow(now, timestamp) == now - timestamp >= CACHE_EXPIRY_MS

\* variant: the age is never looked at
IsExpiredNever(now, timestamp) == FALSE

IsExpired(now, timestamp) == now - timestamp > CACHE_EXPIRY_MS

\* initializeCache only creates the directories and an empty index when they are
\* missing: it changes no entry and no content file, and is left out

\* variant: a hit is returned without the data wrapper
getCachedExtractionFlat(normalizedUrl) ==
  LET entry == cacheIndex[normalizedUrl]
  IN IF entry = Null THEN Null
     ELSE IF IsExpired(clock, entry.timestamp) THEN Null
     ELSE IF cacheFiles[entry.filename] = Null THEN Null
     ELSE [content |-> cacheFiles[entry.filename],
           fileCount |-> entry.fileCount,
           totalSize |-> entry.totalSize,
           duration |-> entry.duration]

getCachedExtraction(normalizedUrl) ==
  LET entry == cacheIndex[normalizedUrl]
  IN IF entry = Null THEN Null
     ELSE IF IsExpired(clock, entry.timestamp) THEN Null
     ELSE IF cacheFiles[entry.filename] = Null THEN Null
     ELSE [data |-> [content |-> cacheFiles[entry.filename],
                     fileCount |-> entry.fileCount,
                     totalSize |-> entry.totalSize],
           duration |-> entry.duration]

\* the index entry setCachedExtraction stores
CacheEntry(normalizedUrl, extractionResult) ==
  [filename |-> generateFilename(normalizedUrl),
   timestamp |-> clock,
   size |-> SumSeq(extractionResult.data.content.parts),
   fileCount |-> extractionResult.data.fileCount,
   totalSize |-> extractionResult.data.totalSize,
   duration |-> extractionResult.duration]

\* variant: a content file that exists is not written again
setCachedExtractionKeepsFile(normalizedUrl, extractionResult, writeOk, saveOk) ==
  /\ cacheFiles' = IF writeOk /\ cacheFiles[generateFilename(normalizedUrl)] = Null
                   THEN [cacheFiles EXCEPT ![generateFilename(normalizedUrl)] =
                                             extractionResult.data.content]
                   ELSE cacheFiles
  /\ cacheIndex' = IF writeOk /\ saveOk
                   THEN [cacheIndex EXCEPT ![normalizedUrl] =
                                             CacheEntry(normalizedUrl, extractionResult)]
                   ELSE cacheIndex

\* variant: the index that is saved holds the new entry only
setCachedExtractionAlone(normalizedUrl, extractionResult, writeOk, saveOk) ==
  /\ cacheFiles' = IF writeOk
                   THEN [cacheFiles EXCEPT ![generateFilename(normalizedUrl)] =
                                             extractionResult.data.content]
                   ELSE cacheFiles
  /\ cacheIndex' = IF writeOk /\ saveOk
                   THEN [k \in CacheKeys |->
                           IF k = normalizedUrl
                           THEN CacheEntry(normalizedUrl, extractionResult)
                           ELSE Null]
                   ELSE cacheIndex

\* writeOk: fs.writeFileSync of the content succeeds; saveOk: saveIndex succeeds
setCachedExtraction(normalizedUrl, extractionResult, writeOk, saveOk) ==
  /\ cacheFiles' = IF writeOk
                   THEN [cacheFiles EXCEPT ![generateFilename(normalizedUrl)] =
                                             extractionResult.data.content]
                   ELSE cacheFiles
  /\ cacheIndex' = IF writeOk /\ saveOk
                   THEN [cacheIndex EXCEPT ![normalizedUrl] =
                                             CacheEntry(normalizedUrl, extractionResult)]
                   ELSE cacheIndex

(***************************************************************************)
(* classifyCloneError: stderr is the set of phrases it contains (lower     *)
(* case), timedOut says whether the error message contains ETIMEDOUT.      *)
(***************************************************************************)
\* variant: the host test comes before the test for "repository not found"
classifyCloneErrorHostFirst(stderr, timedOut) ==
  IF timedOut
    THEN [type |-> "timeout",
          message |-> "Sorry, repository is too large. Try a smaller repo.",
          suggestion |-> "Try a smaller repository."]
  ELSE IF "could not resolve host" \in stderr
    THEN [type |-> "network_error",
          message |-> "Network error: Could not resolve hostname.",
          suggestion |-> "Check your internet connection and verify the Git hosting service URL."]
  ELSE IF "repository not found" \in stderr
    THEN [type |-> "repository_not_found",
          message |-> "Repository not found. It may be private, non-existent, or you may lack access.",
          suggestion |-> "Verify the repository URL is correct and public, or provide authentication for private repos."]
  ELSE IF "permission denied" \in stderr \/ "authentication failed" \in stderr
    THEN [type |-> "permission_denied",
          message |-> "Authentication required or permission denied.",
          suggestion |-> "This repository requires authentication. Provide a GitHub token or SSH key."]
  ELSE IF "fatal:" \in stderr /\ "not a git repository" \in stderr
    THEN [type |-> "invalid_url",
          message |-> "Invalid Git repository URL.",
          suggestion |-> "Ensure the URL points to a valid Git repository."]
  ELSE [type |-> "unknown",
        message |-> "Unknown error occurred during cloning.",
        suggestion |-> "Check the repository URL and try again."]

classifyCloneError(stderr, timedOut) ==
  IF timedOut
    THEN [type |-> "timeout",
          message |-> "Sorry, repository is too large. Try a smaller repo.",
          suggestion |-> "Try a smaller repository."]
  ELSE IF "repository not found" \in stderr
    THEN [type |-> "repository_not_found",
          message |-> "Repository not found. It may be private, non-existent, or you may lack access.",
          suggestion |-> "Verify the repository URL is correct and public, or provide authentication for private repos."]
  ELSE IF "could not resolve host" \in stderr
    THEN [type |-> "network_error",
          message |-> "Network error: Could not resolve hostname.",
          suggestion |-> "Check your internet connection and verify the Git hosting service URL."]
  ELSE IF "permission denied" \in stderr \/ "authentication failed" \in stderr
    THEN [type |-> "permission_denied",
          message |-> "Authentication required or permission denied.",
          suggestion |-> "This repository requires authentication. Provide a GitHub token or SSH key."]
  ELSE IF "fatal:" \in stderr /\ "not a git repository" \in stderr
    THEN [type |-> "invalid_url",
          message |-> "Invalid Git repository URL.",
          suggestion |-> "Ensure the URL points to a valid Git repository."]
  ELSE [type |-> "unknown",
        message |-> "Unknown error occurred during cloning.",
        suggestion |-> "Check the repository URL and try again."]

(***************************************************************************)
(* Inputs: working trees, candidate files, options.                        *)
(***************************************************************************)
\* what stat and read give for one candidate file
FileShapes ==
  { [statOk |-> TRUE, readOk |-> TRUE, size |-> 3, lines |-> <<3>>],
    [statOk |-> TRUE, readOk |-> TRUE, size |-> 11, lines |-> <<5, 0, 4>>],
    [statOk |-> TRUE, readOk |-> TRUE, size |-> 30, lines |-> <<30>>],
    [statOk |-> TRUE, readOk |-> FALSE, size |-> 30, lines |-> <<30>>],
    [statOk |-> FALSE, readOk |-> TRUE, size |-> 3, lines |-> <<3>>],
    [statOk |-> TRUE, readOk |-> FALSE, size |-> 3, lines |-> <<3>>] }

\* where a file of the working tree lies and which ignore files name it:
\* dir is the directory the exclusion rules look at ("" for any other),
\* gitIgnored / geminiIgnored say whether a pattern of .gitignore (or
\* .git/info/exclude) / of .geminiignore matches the path
PlainFile == [dir |-> "", gitIgnored |-> FALSE, geminiIgnored |-> FALSE]

FileKinds ==
  { PlainFile,
    [dir |-> ".git", gitIgnored |-> FALSE, geminiIgnored |-> FALSE],
    [dir |-> "node_modules", gitIgnored |-> FALSE, geminiIgnored |-> FALSE],
    [dir |-> "", gitIgnored |-> TRUE, geminiIgnored |-> FALSE],
    [dir |-> "", gitIgnored |-> FALSE, geminiIgnored |-> TRUE] }

\* the files of a tree are sorted and have no duplicates: the path of a file
\* is its rank in the sorted list
WithKinds(shapes, kinds) ==
  [i \in 1..Len(shapes) |->
     [path |-> i, pathLen |-> 5, statOk |-> shapes[i].statOk,
      readOk |-> shapes[i].readOk, size |-> shapes[i].size, lines |-> shapes[i].lines,
      dir |-> kinds[i].dir, gitIgnored |-> kinds[i].gitIgnored,
      geminiIgnored |-> kinds[i].geminiIgnored]]

WithPaths(shapes) == WithKinds(shapes, [i \in 1..Len(shapes) |-> PlainFile])

CandidateLists(n) == UNION {[1..k -> FileShapes] : k \in 0..n}

Tree(rootLen, treeLen, shapes) ==
  [rootLen |-> rootLen, treeLen |-> treeLen, gitignore |-> <<>>,
   geminiignore |-> <<>>, files |-> WithPaths(shapes)]

NoTree == Tree(0, 0, <<>>)

\* a working tree of small text files of the given kinds, with one pattern
\* in .gitignore and one in .geminiignore
KindTree(kinds) ==
  [rootLen |-> 10, treeLen |-> 12, gitignore |-> <<5>>, geminiignore |-> <<5>>,
   files |-> WithKinds([i \in 1..Len(kinds) |->
                          [statOk |-> TRUE, readOk |-> TRUE, size |-> 3, lines |-> <<3>>]],
                       kinds)]

FilterTrees == {KindTree(k) : k \in UNION {[1..n -> FileKinds] : n \in 0..MaxCandidates}}

\* lines 18-73: the directories among DEFAULT_EXCLUDES
MatchesDefaultExcludes(file) == file.dir \in {".git", "node_modules"}

\* lines 284-290: glob('**/*') with dot files, ignoring effectiveExcludes
GlobFiles(opts, tree) ==
  SelectSeq(tree.files,
            LAMBDA f : ~(opts.useDefaultExcludes /\ MatchesDefaultExcludes(f)))

\* lines 261-267: the patterns of gitIgnore, with '.git' added last
GitIgnoreIsIgnored(file) == file.gitIgnored \/ file.dir = ".git"

\* lines 277-281
shouldIgnore(opts, file) ==
  \/ opts.respectGitIgnore /\ GitIgnoreIsIgnored(file)
  \/ opts.respectGeminiIgnore /\ file.geminiIgnored

\* lines 284-296: the candidate list
FilteredFiles(opts, tree) ==
  SelectSeq(GlobFiles(opts, tree), LAMBDA f : ~shouldIgnore(opts, f))

\* lines 244-253: the defaults of the options of extractRepoContext
DefaultOptionsOfWalk ==
  [respectGitIgnore |-> TRUE, respectGeminiIgnore |-> TRUE, useDefaultExcludes |-> TRUE,
   maxFiles |-> MAX_FILES, maxOutputChars |-> MAX_OUTPUT_CHARS,
   maxFileSize |-> MAX_FILE_SIZE, maxLinesPerFile |-> MAX_LINES_PER_FILE,
   maxLineLength |-> MAX_LINE_LENGTH]

\* the three exclusion flags in every combination, budgets at their defaults
FilterOptions ==
  {[DefaultOptionsOfWalk EXCEPT !.respectGitIgnore = g, !.respectGeminiIgnore = m,
                                !.useDefaultExcludes = d] :
     g \in BOOLEAN, m \in BOOLEAN, d \in BOOLEAN}

WalkTrees == {Tree(10, 12, c) : c \in CandidateLists(MaxCandidates)}

WalkOptions ==
  [respectGitIgnore : {TRUE}, respectGeminiIgnore : {TRUE},
   useDefaultExcludes : BOOLEAN,
   maxFiles : {0, 1, 2},
   maxOutputChars : {221, 254, 275, MAX_OUTPUT_CHARS},
   maxFileSize : {10, MAX_FILE_SIZE},
   maxLinesPerFile : {2, MAX_LINES_PER_FILE},
   maxLineLength : {4, MAX_LINE_LENGTH}]

\* the working tree a clone produces: a file that cannot be stat-ed, a text
\* file, a file that cannot be read
Repos ==
  { Tree(40, 30, << [statOk |-> FALSE, readOk |-> TRUE, size |-> 3, lines |-> <<3>>],
                    [statOk |-> TRUE, readOk |-> TRUE, size |-> 11, lines |-> <<5, 0, 4>>],
                    [statOk |-> TRUE, readOk |-> FALSE, size |-> 3, lines |-> <<3>>] >>) }

\* what a failing clone reports
CloneFailures ==
  { [timedOut |-> TRUE, stderr |-> {}],
    [timedOut |-> FALSE, stderr |-> {"fatal:", "repository not found"}],
    [timedOut |-> FALSE, stderr |-> {"fatal:", "not a git repository"}] }

\* the phrases classifyCloneError looks for in stderr
DiagnosticPhrases ==
  {"fatal:", "repository not found", "could not resolve host", "permission denied",
   "authentication failed", "not a git repository"}

\* every failing clone: killed at the timeout or not, with any diagnostics
AllCloneFailures == [timedOut : BOOLEAN, stderr : SUBSET DiagnosticPhrases]

\* lines 550-562: the defaults of the options of extractRepoContextRobust
DefaultOptions ==
  [respectGitIgnore |-> TRUE, respectGeminiIgnore |-> TRUE, useDefaultExcludes |-> TRUE,
   maxFiles |-> MAX_FILES, maxOutputChars |-> MAX_OUTPUT_CHARS,
   maxFileSize |-> MAX_FILE_SIZE, maxLinesPerFile |-> MAX_LINES_PER_FILE,
   maxLineLength |-> MAX_LINE_LENGTH,
   cleanupOnSuccess |-> TRUE, cleanupOnError |-> TRUE, useCache |-> TRUE]

\* the options a caller passes: the flags in every combination, budgets at their defaults
CallOptions ==
  {[DefaultOptions EXCEPT !.cleanupOnSuccess = s, !.cleanupOnError = e, !.useCache = c] :
     s \in BOOLEAN, e \in BOOLEAN, c \in BOOLEAN}

\* time between the return of one call and the start of the next
CallGaps == {CACHE_EXPIRY_MS, CACHE_EXPIRY_MS + 1}
\* time a clone that finishes takes
CloneTimes == {1000}

(***************************************************************************)
(* generateDirectoryTree.  A directory is a record with the entries that   *)
(* fs.readdirSync gives, in the order of their names; readable says        *)
(* whether readdirSync succeeds.  A line of the output is a record: the    *)
(* root line, the line of an entry, the collapsed line of a folder of      *)
(* DEFAULT_IGNORED_FOLDERS, or the truncation marker.                      *)
(***************************************************************************)
FileEntry(name, gitIgnored, defaultExcluded) ==
  [isDir |-> FALSE, name |-> name, dir |-> "", gitIgnored |-> gitIgnored,
   geminiIgnored |-> FALSE, defaultExcluded |-> defaultExcluded,
   readable |-> TRUE, entries |-> <<>>]

DirEntry(name, readable, entries) ==
  [isDir |-> TRUE, name |-> name, dir |-> "", gitIgnored |-> FALSE,
   geminiIgnored |-> FALSE, defaultExcluded |-> FALSE,
   readable |-> readable, entries |-> entries]

SourceFile == FileEntry("a.js", FALSE, FALSE)
IgnoredFile == FileEntry("debug.log", TRUE, FALSE)      \* named by .gitignore
ImageFile == FileEntry("logo.png", FALSE, TRUE)         \* matches '**/*.png'

\* the entries a root directory is made of
EntryKinds ==
  { SourceFile, IgnoredFile, ImageFile,
    DirEntry("node_modules", TRUE, <<SourceFile>>),
    DirEntry("src", TRUE, <<>>),
    DirEntry("src", TRUE, <<SourceFile>>),
    DirEntry("src", TRUE, <<SourceFile, SourceFile>>),
    DirEntry("src", TRUE, <<IgnoredFile, SourceFile>>),
    DirEntry("src", TRUE, <<DirEntry("lib", TRUE, <<SourceFile>>)>>),
    DirEntry("src", FALSE, <<SourceFile>>) }

RootDirs ==
  {DirEntry("repo", TRUE, e) : e \in UNION {[1..n -> EntryKinds] : n \in 0..MaxEntries}}

EmptyDir == DirEntry("repo", TRUE, <<>>)

TreeLimits == {0, 1, 2, 3}

RootLine == [kind |-> "root", name |-> "repo"]
TruncationMarker == [kind |-> "marker", name |-> "... (truncated)"]

EntryLine(kind, entry) ==
  [kind |-> kind, name |-> entry.name, gitIgnored |-> entry.gitIgnored,
   geminiIgnored |-> entry.geminiIgnored, defaultExcluded |-> entry.defaultExcluded]

\* variant: the line is pushed but not counted
PushLineUncounted(st, line) ==
  [st EXCEPT !.lines = Append(@, line)]

\* lines.push(...); itemCount++
PushLine(st, line) ==
  [st EXCEPT !.lines = Append(@, line), !.itemCount = @ + 1]

\* lines 133-144: the entries the ignore function lets through, directories
\* first, each group in the order of the names
FilteredEntries(opts, dir) ==
  LET kept == SelectSeq(dir.entries, LAMBDA e : ~shouldIgnore(opts, e))
  IN SelectSeq(kept, LAMBDA e : e.isDir) \o SelectSeq(kept, LAMBDA e : ~e.isDir)

RECURSIVE traverse(_, _, _, _), forEachEntry(_, _, _, _, _)

\* lines 146-167: the callback of forEach, for the entries from index i on
forEachEntry(entries, i, opts, max, st) ==
  IF i > Len(entries) THEN st
  ELSE LET entry == entries[i]
           after ==
             IF st.itemCount >= max THEN st
             ELSE IF entry.isDir
               THEN IF entry.name \in DEFAULT_IGNORED_FOLDERS
                    THEN PushLine(st, EntryLine("collapsed", entry))
                    ELSE traverse(entry, opts, max, PushLine(st, EntryLine("entry", entry)))
             ELSE PushLine(st, EntryLine("entry", entry))
       IN forEachEntry(entries, i + 1, opts, max, after)

\* lines 122-171
traverse(dir, opts, max, st) ==
  IF st.itemCount >= max
    THEN IF st.itemCount = max THEN PushLine(st, TruncationMarker) ELSE st
  ELSE LET read == [st EXCEPT !.dirsRead = Append(@, st.itemCount)]
       IN IF ~dir.readable THEN read
          ELSE forEachEntry(FilteredEntries(opts, dir), 1, opts, max, read)

\* lines 115-175; the result is the state of the closure when it returns
generateDirectoryTree(dir, opts, max) ==
  traverse(dir, opts, max, [lines |-> <<RootLine>>, itemCount |-> 0, dirsRead |-> <<>>])

\* generateDirectoryTree has not been called
TreeIdle ==
  /\ rootDir = EmptyDir
  /\ maxItems = MAX_TREE_ITEMS
  /\ treeLines = <<>>
  /\ itemCount = 0
  /\ dirsRead = <<>>

\* no request has reached the server
ApiIdle ==
  /\ handler = "idle"
  /\ request = Null
  /\ response = Null
  /\ aiCalled = FALSE
  /\ caller = Null

\* the requests that run at the same time, and the names that
\* `temp-extraction-${Date.now()}-${Math.random().toString(36).substring(7)}`
\* can give them
Requests == {1, 2, 3}
TempNames == {"temp-extraction-1-a", "temp-extraction-1-b"}

NoPipeline == [stage |-> "idle", tempDir |-> "null", readFrom |-> 0]

\* no call is running and no temporary directory is on disk
ConcIdle ==
  /\ pipelines = [r \in Requests |-> NoPipeline]
  /\ tempDirs = [n \in TempNames |-> Null]

\* runWithConcurrencyLimit is not running
LimitIdle ==
  /\ tasks = <<>>
  /\ limit = 1
  /\ taskState = <<>>
  /\ executing = <<>>
  /\ results = <<>>
  /\ nextTask = 1
  /\ runner = "idle"
  /\ raced = {}
  /\ started = <<>>
  /\ settled = <<>>
  /\ returned = Null

\* validateMermaidDiagram was not called
MermaidIdle ==
  /\ diagram = Null
  /\ validationResult = Null

\* the calls that put into the cache while another is running
CacheRequests == {1, 2}

NoCacheCall == [stage |-> "idle", key |-> Null, began |-> 0, putAt |-> 0,
                stored |-> FALSE, got |-> Null]

CacheCallsIdle == cacheCalls = [r \in CacheRequests |-> NoCacheCall]

ToolIdle == LimitIdle /\ MermaidIdle /\ CacheCallsIdle

OtherIdle == TreeIdle /\ ApiIdle /\ ConcIdle /\ ToolIdle

GenerateDirectoryTree ==
  /\ pc = "tree"
  /\ LET st == generateDirectoryTree(rootDir, options, maxItems)
     IN /\ treeLines' = st.lines
        /\ itemCount' = st.itemCount
        /\ dirsRead' = st.dirsRead
  /\ pc' = "tree_done"
  /\ UNCHANGED <<options, repo, pipeVars, walkVars, rootDir, maxItems, apiVars, concVars, toolVars>>

(***************************************************************************)
(* The file walk of extractRepoContext (the for loop over filteredFiles).  *)
(***************************************************************************)
\* the locals of extractRepoContext before it runs
WalkIdle ==
  /\ filteredFiles = <<>>
  /\ idx = 1
  /\ outputParts = <<>>
  /\ outputChars = 0
  /\ fileCount = 0
  /\ skippedCount = 0
  /\ totalSize = 0
  /\ processedFiles = <<>>
  /\ skippedFiles = <<>>
  /\ fsCalls = <<>>

\* extractRepoContext has returned: its locals are gone
WalkReset ==
  /\ filteredFiles' = <<>>
  /\ idx' = 1
  /\ outputParts' = <<>>
  /\ outputChars' = 0
  /\ fileCount' = 0
  /\ skippedCount' = 0
  /\ totalSize' = 0
  /\ processedFiles' = <<>>
  /\ skippedFiles' = <<>>
  /\ fsCalls' = <<>>

\* variant: the limit test lets one more file through
FileCountReachedLate(count, maxFiles) == count > maxFiles

FileCountReached(count, maxFiles) == count >= maxFiles

\* variant: the limit is taken for kilobytes
FileTooLargeKB(size, maxFileSize) == size > maxFileSize * 1024

FileTooLarge(size, maxFileSize) == size > maxFileSize

\* variant: the test looks at the total before the section is added
ExceedsCharLimitBeforeOnly(chars, sectionLength, maxOutputChars) ==
  chars > maxOutputChars

\* variant: after one refusal for the budget every later section is refused
ExceedsCharLimitOnce(chars, sectionLength, maxOutputChars) ==
  \/ chars + sectionLength > maxOutputChars
  \/ \E i \in 1..Len(skippedFiles) : skippedFiles[i].reason = "character limit reached"

ExceedsCharLimit(chars, sectionLength, maxOutputChars) ==
  chars + sectionLength > maxOutputChars

\* variant: a skip is listed but not counted
SkipFileUncounted(file, reason) ==
  /\ skippedFiles' = Append(skippedFiles, [path |-> file.path, pathLen |-> file.pathLen,
                                           reason |-> reason])
  /\ UNCHANGED <<skippedCount, outputParts, outputChars, processedFiles, fileCount,
                 totalSize>>

SkipFile(file, reason) ==
  /\ skippedFiles' = Append(skippedFiles, [path |-> file.path, pathLen |-> file.pathLen,
                                           reason |-> reason])
  /\ skippedCount' = skippedCount + 1
  /\ UNCHANGED <<outputParts, outputChars, processedFiles, fileCount, totalSize>>

AddFile(file, sectionLength) ==
  /\ outputParts' = Append(outputParts, sectionLength)
  /\ outputChars' = outputChars + sectionLength
  /\ processedFiles' = Append(processedFiles, file.path)
  /\ fileCount' = fileCount + 1
  /\ totalSize' = totalSize + file.size
  /\ UNCHANGED <<skippedFiles, skippedCount>>

\* fs.statSync(fullPath), line 357, and fs.readFileSync(fullPath, 'utf-8'), line 368
StatCall(file) == [op |-> "statSync", path |-> file.path]
ReadCall(file) == [op |-> "readFileSync", path |-> file.path]

\* variant: the size is looked at before the number of files
WalkFileSizeFirst ==
  /\ UNCHANGED otherVars
  /\ pc = "walk"
  /\ idx <= Len(filteredFiles)
  /\ LET file == filteredFiles[idx]
         processed == processFileContent(file.lines, options.maxLinesPerFile,
                                         options.maxLineLength)
         sectionLength == FileSectionLength(file, processed)
     IN IF ~file.statOk
          THEN /\ SkipFile(file, "read error")
               /\ fsCalls' = Append(fsCalls, StatCall(file))
        ELSE IF FileTooLarge(file.size, options.maxFileSize)
          THEN /\ SkipFile(file, "file too large")
               /\ fsCalls' = Append(fsCalls, StatCall(file))
        ELSE IF FileCountReached(fileCount, options.maxFiles)
          THEN /\ SkipFile(file, "max files limit reached")
               /\ fsCalls' = Append(fsCalls, StatCall(file))
        ELSE IF ~file.readOk
          THEN /\ SkipFile(file, "not a text file")
               /\ fsCalls' = fsCalls \o <<StatCall(file), ReadCall(file)>>
        ELSE IF ExceedsCharLimit(outputChars, sectionLength, options.maxOutputChars)
          THEN /\ SkipFile(file, "character limit reached")
               /\ fsCalls' = fsCalls \o <<StatCall(file), ReadCall(file)>>
        ELSE /\ AddFile(file, sectionLength)
             /\ fsCalls' = fsCalls \o <<StatCall(file), ReadCall(file)>>
  /\ idx' = idx + 1
  /\ UNCHANGED <<pc, options, repo, filteredFiles, pipeVars>>

\* lines 347-400: one turn of the loop over filteredFiles
WalkFile ==
  /\ UNCHANGED otherVars
  /\ pc = "walk"
  /\ idx <= Len(filteredFiles)
  /\ LET file == filteredFiles[idx]
         processed == processFileContent(file.lines, options.maxLinesPerFile,
                                         options.maxLineLength)
         sectionLength == FileSectionLength(file, processed)
     IN IF FileCountReached(fileCount, options.maxFiles)
          THEN /\ SkipFile(file, "max files limit reached")
               /\ fsCalls' = fsCalls
        ELSE IF ~file.statOk
          THEN /\ SkipFile(file, "read error")
               /\ fsCalls' = Append(fsCalls, StatCall(file))
        ELSE IF FileTooLarge(file.size, options.maxFileSize)
          THEN /\ SkipFile(file, "file too large")
               /\ fsCalls' = Append(fsCalls, StatCall(file))
        ELSE IF ~file.readOk
          THEN /\ SkipFile(file, "not a text file")
               /\ fsCalls' = fsCalls \o <<StatCall(file), ReadCall(file)>>
        ELSE IF ExceedsCharLimit(outputChars, sectionLength, options.maxOutputChars)
          THEN /\ SkipFile(file, "character limit reached")
               /\ fsCalls' = fsCalls \o <<StatCall(file), ReadCall(file)>>
        ELSE /\ AddFile(file, sectionLength)
             /\ fsCalls' = fsCalls \o <<StatCall(file), ReadCall(file)>>
  /\ idx' = idx + 1
  /\ UNCHANGED <<pc, options, repo, filteredFiles, pipeVars>>

\* lines 402-427: the summary footer and the returned record
WalkEnd ==
  /\ UNCHANGED otherVars
  /\ pc = "walk"
  /\ idx > Len(filteredFiles)
  /\ outputParts' = outputParts
                     \o SummaryParts(fileCount, skippedCount, totalSize, skippedFiles)
  /\ pc' = "extracted"
  /\ UNCHANGED <<options, repo, pipeVars, filteredFiles, idx, outputChars, fileCount,
                 skippedCount, totalSize, processedFiles, skippedFiles, fsCalls>>

\* lines 243-345: everything extractRepoContext does before the loop
ExtractBegin ==
  /\ UNCHANGED otherVars
  /\ pc = "extract"
  /\ filteredFiles' = FilteredFiles(options, repo)
  /\ outputParts' = HeaderParts(options, repo)
  /\ outputChars' = SumSeq(HeaderParts(options, repo))
  /\ fileCount' = 0
  /\ skippedCount' = 0
  /\ totalSize' = 0
  /\ processedFiles' = <<>>
  /\ skippedFiles' = <<>>
  /\ fsCalls' = <<>>
  /\ idx' = 1
  /\ pc' = "walk"
  /\ UNCHANGED <<options, repo, pipeVars>>

(***************************************************************************)
(* extractRepoContextRobust: one call at a time, step by step.             *)
(***************************************************************************)
\* options.success: the options object of a caller has no such key
OptionSet(opts, name) == IF name \in DOMAIN opts THEN opts[name] ELSE FALSE

Failure(type, error) ==
  [type |-> type, success |-> FALSE, error |-> error, repoUrl |-> repoUrl,
   duration |-> clock - startTime]

walkUnchanged == UNCHANGED walkVars

\* a caller invokes extractRepoContextRobust(repoUrl, options); lines 549-569
StartCall ==
  /\ UNCHANGED otherVars
  /\ pc \in {"idle", "done"}
  /\ calls < MaxCalls
  /\ \E url \in Locators, opts \in CallOptions, gap \in CallGaps :
       /\ repoUrl' = url
       /\ options' = opts
       /\ clock' = IF pc = "idle" THEN clock ELSE clock + gap
       /\ startTime' = clock'
  /\ prev' = IF pc = "idle" THEN Null
             ELSE [repoUrl |-> repoUrl, useCache |-> options.useCache,
                   result |-> IF result.success THEN result
                              ELSE [type |-> result.type, success |-> FALSE]]
  /\ calls' = calls + 1
  /\ tempDir' = "null"
  /\ workspace' = "absent"
  /\ rmFailed' = FALSE
  /\ cloneInvoked' = FALSE
  /\ result' = Null
  /\ repo' = NoTree
  /\ pc' = "cache"
  /\ UNCHANGED <<cacheIndex, cacheFiles>>
  /\ walkUnchanged

\* variant: the cache is consulted whatever useCache says
CacheLookupAlways ==
  /\ UNCHANGED otherVars
  /\ pc = "cache"
  /\ LET cachedResult == getCachedExtraction(NormalizeUrl(repoUrl))
     IN IF cachedResult # Null
        THEN /\ result' = cachedResult @@ [type |-> "success", success |-> TRUE]
             /\ pc' = "done"
        ELSE /\ result' = result
             /\ pc' = "validate"
  /\ UNCHANGED <<calls, clock, cacheIndex, cacheFiles, repoUrl, options, startTime,
                 tempDir, workspace, rmFailed, cloneInvoked, repo, prev>>
  /\ walkUnchanged

\* lines 571-582: the cache is consulted first; a hit returns at once
CacheLookup ==
  /\ UNCHANGED otherVars
  /\ pc = "cache"
  /\ LET cachedResult == IF options.useCache
                         THEN getCachedExtraction(NormalizeUrl(repoUrl))
                         ELSE Null
     IN IF cachedResult # Null
        THEN /\ result' = cachedResult @@ [type |-> "success", success |-> TRUE]
             /\ pc' = "done"
        ELSE /\ result' = result
             /\ pc' = "validate"
  /\ UNCHANGED <<calls, clock, cacheIndex, cacheFiles, repoUrl, options, startTime,
                 tempDir, workspace, rmFailed, cloneInvoked, repo, prev>>
  /\ walkUnchanged

\* variant: the outcome of the validation is ignored
ValidateIgnored ==
  /\ UNCHANGED otherVars
  /\ pc = "validate"
  /\ pc' = "prepare"
  /\ UNCHANGED <<calls, clock, cacheIndex, cacheFiles, repoUrl, options, startTime,
                 tempDir, workspace, rmFailed, cloneInvoked, repo, result, prev>>
  /\ walkUnchanged

\* lines 585-600
Validate ==
  /\ UNCHANGED otherVars
  /\ pc = "validate"
  /\ LET validation == validateRepoUrl(repoUrl)
     IN IF ~validation.valid
        THEN /\ result' = Failure("validation_error",
                                  [type |-> "invalid_url", message |-> validation.error,
                                   suggestion |-> "Please provide a valid Git repository URL."])
             /\ pc' = "finally"
        ELSE /\ result' = result
             /\ pc' = "prepare"
  /\ UNCHANGED <<calls, clock, cacheIndex, cacheFiles, repoUrl, options, startTime,
                 tempDir, workspace, rmFailed, cloneInvoked, repo, prev>>
  /\ walkUnchanged

UnexpectedError ==
  Failure("extraction_error",
          [type |-> "unknown", message |-> "Unexpected error",
           suggestion |-> "An unexpected error occurred. Please try again.",
           originalError |-> "error"])

\* lines 602-611; mkdirOk: fs.mkdirSync succeeds (else the outer catch, lines 713-725)
PrepareWorkspace ==
  /\ UNCHANGED otherVars
  /\ pc = "prepare"
  /\ tempDir' = "set"
  /\ \E mkdirOk \in BOOLEAN :
       IF mkdirOk
       THEN /\ workspace' = "exists"
            /\ result' = result
            /\ pc' = "clone"
       ELSE /\ workspace' = workspace
            /\ result' = UnexpectedError
            /\ pc' = "finally"
  /\ UNCHANGED <<calls, clock, cacheIndex, cacheFiles, repoUrl, options, startTime,
                 rmFailed, cloneInvoked, repo, prev>>
  /\ walkUnchanged

\* lines 613-621 and 639: git clone exits with 0 and cloneDir exists
CloneOk ==
  /\ UNCHANGED otherVars
  /\ pc = "clone"
  /\ cloneInvoked' = TRUE
  /\ \E tree \in Repos, t \in CloneTimes :
       /\ repo' = tree
       /\ clock' = clock + t
  /\ pc' = "extract"
  /\ UNCHANGED <<calls, cacheIndex, cacheFiles, repoUrl, options, startTime,
                 tempDir, workspace, rmFailed, result, prev>>
  /\ walkUnchanged

\* lines 622-637: git clone fails or is killed at the timeout
CloneFailWith(failures) ==
  /\ UNCHANGED otherVars
  /\ pc = "clone"
  /\ cloneInvoked' = TRUE
  /\ \E f \in failures, t \in CloneTimes :
       /\ clock' = clock + (IF f.timedOut THEN CLONE_TIMEOUT_MS ELSE t)
       /\ result' = LET classifiedError == classifyCloneError(f.stderr, f.timedOut)
                     IN [type |-> "clone_error", success |-> FALSE,
                         error |-> [type |-> classifiedError.type,
                                    message |-> classifiedError.message,
                                    suggestion |-> classifiedError.suggestion,
                                    originalError |-> <<"Command failed", f.timedOut>>,
                                    stderr |-> f.stderr],
                         repoUrl |-> repoUrl,
                         duration |-> clock' - startTime]
  /\ pc' = "finally"
  /\ UNCHANGED <<calls, cacheIndex, cacheFiles, repoUrl, options, startTime,
                 tempDir, workspace, rmFailed, repo, prev>>
  /\ walkUnchanged

CloneFail == CloneFailWith(CloneFailures)

\* the same step with any diagnostics
CloneFailAny == CloneFailWith(AllCloneFailures)

\* variant: the check of the clone directory is left out
CloneNoDirectoryUnchecked ==
  /\ UNCHANGED otherVars
  /\ pc = "clone"
  /\ cloneInvoked' = TRUE
  /\ \E t \in CloneTimes : clock' = clock + t
  /\ pc' = "extract"
  /\ UNCHANGED <<calls, cacheIndex, cacheFiles, repoUrl, options, startTime,
                 tempDir, workspace, rmFailed, repo, result, prev>>
  /\ walkUnchanged

\* lines 613-621 and 639-652: git clone exits with 0 but cloneDir does not exist
CloneNoDirectory ==
  /\ UNCHANGED otherVars
  /\ pc = "clone"
  /\ cloneInvoked' = TRUE
  /\ \E t \in CloneTimes :
       /\ clock' = clock + t
       /\ result' = [type |-> "clone_error", success |-> FALSE,
                     error |-> [type |-> "unknown",
                                message |-> "Clone appeared to succeed but directory was not created.",
                                suggestion |-> "Try the operation again or check available disk space."],
                     repoUrl |-> repoUrl,
                     duration |-> clock' - startTime]
  /\ pc' = "finally"
  /\ UNCHANGED <<calls, cacheIndex, cacheFiles, repoUrl, options, startTime,
                 tempDir, workspace, rmFailed, repo, prev>>
  /\ walkUnchanged

\* variant: the failed extraction leaves an index entry behind
ExtractFailCached ==
  /\ UNCHANGED otherVars
  /\ pc = "extract"
  /\ result' = Failure("extraction_error",
                       [type |-> "unknown",
                        message |-> "Failed to extract repository context",
                        suggestion |-> "The repository was cloned but could not be processed. Check repository structure.",
                        originalError |-> "error"])
  /\ pc' = "finally"
  /\ UNCHANGED <<calls, clock, cacheFiles, repoUrl, options, startTime,
                 tempDir, workspace, rmFailed, cloneInvoked, repo, prev>>
  /\ walkUnchanged
  /\ cacheIndex' = [cacheIndex EXCEPT ![NormalizeUrl(repoUrl)] =
                     [filename |-> generateFilename(NormalizeUrl(repoUrl)),
                      timestamp |-> clock, size |-> 0, fileCount |-> 0,
                      totalSize |-> 0, duration |-> clock - startTime]]

\* lines 698-711: extractRepoContext throws (glob or the tree walk fails)
ExtractFail ==
  /\ UNCHANGED otherVars
  /\ pc = "extract"
  /\ result' = Failure("extraction_error",
                       [type |-> "unknown",
                        message |-> "Failed to extract repository context",
                        suggestion |-> "The repository was cloned but could not be processed. Check repository structure.",
                        originalError |-> "error"])
  /\ pc' = "finally"
  /\ UNCHANGED <<calls, clock, cacheIndex, cacheFiles, repoUrl, options, startTime,
                 tempDir, workspace, rmFailed, cloneInvoked, repo, prev>>
  /\ walkUnchanged

\* the digest text: the parts pushed on outputParts, and what makes the header
\* of one extraction differ from that of another (root directory, timestamp)
Digest ==
  [parts |-> outputParts, files |-> processedFiles, root |-> calls, stamp |-> clock]

\* lines 668-684: the result of a fresh extraction
ExtractReturn ==
  /\ UNCHANGED otherVars
  /\ pc = "extracted"
  /\ result' = [type |-> "success", success |-> TRUE,
                data |-> [content |-> Digest, fileCount |-> fileCount,
                          skippedCount |-> skippedCount, totalSize |-> totalSize,
                          excludedPatterns |-> ExcludedPatterns(options, repo),
                          repoUrl |-> repoUrl, cloneDir |-> calls, tempDir |-> calls],
                duration |-> clock - startTime]
  /\ pc' = IF options.useCache THEN "cache_write" ELSE "finally"
  /\ WalkReset
  /\ UNCHANGED <<calls, clock, cacheIndex, cacheFiles, repoUrl, options, startTime,
                 tempDir, workspace, rmFailed, cloneInvoked, repo, prev>>

\* variant: a failed write reaches the outer catch
CacheWriteThrows ==
  /\ UNCHANGED otherVars
  /\ pc = "cache_write"
  /\ \E writeOk, saveOk \in BOOLEAN :
       /\ setCachedExtraction(NormalizeUrl(repoUrl), result, writeOk, saveOk)
       /\ result' = IF writeOk /\ saveOk THEN result ELSE UnexpectedError
  /\ pc' = "finally"
  /\ UNCHANGED <<calls, clock, repoUrl, options, startTime, tempDir, workspace,
                 rmFailed, cloneInvoked, repo, prev>>
  /\ walkUnchanged

\* lines 686-696
CacheWrite ==
  /\ UNCHANGED otherVars
  /\ pc = "cache_write"
  /\ \E writeOk, saveOk \in BOOLEAN :
       setCachedExtraction(NormalizeUrl(repoUrl), result, writeOk, saveOk)
  /\ pc' = "finally"
  /\ UNCHANGED <<calls, clock, repoUrl, options, startTime, tempDir, workspace,
                 rmFailed, cloneInvoked, repo, result, prev>>
  /\ walkUnchanged

\* variant: only a call marked as a success is cleaned up
CleanupConditionSuccessOnly(opts) ==
  OptionSet(opts, "success") /\ opts.cleanupOnSuccess

\* line 731
CleanupCondition(opts) ==
  \/ OptionSet(opts, "success") /\ opts.cleanupOnSuccess
  \/ ~OptionSet(opts, "success") /\ opts.cleanupOnError

\* lines 727-743; rmOk: fs.rmSync succeeds
Finally ==
  /\ UNCHANGED otherVars
  /\ pc = "finally"
  /\ LET shouldCleanup == tempDir # "null" /\ workspace = "exists"
     IN IF shouldCleanup /\ CleanupCondition(options)
        THEN \E rmOk \in BOOLEAN :
               /\ workspace' = IF rmOk THEN "removed" ELSE workspace
               /\ rmFailed' = ~rmOk
        ELSE UNCHANGED <<workspace, rmFailed>>
  /\ pc' = "done"
  /\ UNCHANGED <<calls, clock, cacheIndex, cacheFiles, repoUrl, options, startTime,
                 tempDir, cloneInvoked, repo, result, prev>>
  /\ walkUnchanged

(***************************************************************************)
(* The server: POST /api/generate-diagram, and getGitCloneUrl.             *)
(***************************************************************************)
\* a value of req.body.repoUrl that is no string (a number, an object)
NonString == Url("", "", <<>>, FALSE) @@ [nonString |-> TRUE]

\* what a client may send: "", 42, "not-a-valid-url", "user/repo",
\* "github.com/user/repo", "git@github.com:user/repo.git",
\* "https://github.com/user/repo" (also with ".git", with "/tree/main"),
\* "https://github.com/us*er/repo", "https://github.com/user",
\* "https://example.com/user/repo"
RequestBodies ==
  { EmptyUrl, NonString, NotAUrl,
    Url("", "", <<"user", "repo">>, FALSE),
    Url("", "github.com", <<"user", "repo">>, FALSE),
    Url("git@", "github.com", <<"user", "repo">>, TRUE),
    GitHubRepo, GitHubRepoGit,
    Url("https", "github.com", <<"user", "repo", "tree", "main">>, FALSE),
    Url("https", "github.com", <<"us*er", "repo">>, FALSE),
    Url("https", "github.com", <<"user">>, FALSE),
    OtherHostRepo }

\* !url || typeof url !== 'string'
IsString(value) == "nonString" \notin DOMAIN value
Truthy(value) == value # Null /\ (IsString(value) => value # EmptyUrl)

\* /^[\w\-\.]+$/ : the names of the model with another character in them
OtherCharNames == {"us*er"}
IsWordName(name) == name \notin OtherCharNames

\* the parts of the text between its slashes when it is read without a scheme
TextParts(url) == IF url.host = "" THEN url.segs ELSE <<url.host>> \o url.segs

\* the four patterns of getGitCloneUrl: the org and repo groups of a match,
\* Null when the pattern does not match
MatchClonePattern(url, n) ==
  CASE n = 1 -> IF /\ url.scheme \in {"http", "https"}
                   /\ url.host = "github.com"
                   /\ Len(url.segs) >= 2
                THEN <<url.segs[1], url.segs[2]>> ELSE Null
    [] n = 2 -> IF /\ url.scheme = "git@"
                   /\ url.host = "github.com"
                   /\ Len(url.segs) = 2
                THEN <<url.segs[1], url.segs[2]>> ELSE Null
    [] n = 3 -> IF /\ url.scheme = ""
                   /\ url.host = "github.com"
                   /\ Len(url.segs) >= 2
                THEN <<url.segs[1], url.segs[2]>> ELSE Null
    [] n = 4 -> IF /\ url.scheme = ""
                   /\ Len(TextParts(url)) = 2
                THEN TextParts(url) ELSE Null

\* lines 7-40 of getGitCloneUrl: the first pattern that matches with an org
\* and a repo of word characters gives https://github.com/org/repo.git
getGitCloneUrl(url) ==
  IF ~Truthy(url) \/ ~IsString(url) THEN Null
  ELSE LET Accepted(n) == /\ MatchClonePattern(url, n) # Null
                          /\ IsWordName(MatchClonePattern(url, n)[1])
                          /\ IsWordName(MatchClonePattern(url, n)[2])
       IN IF \E n \in 1..4 : Accepted(n)
          THEN LET first == CHOOSE n \in 1..4 :
                              Accepted(n) /\ \A m \in 1..(n - 1) : ~Accepted(m)
               IN Url("https", "github.com", MatchClonePattern(url, first), TRUE)
          ELSE Null

\* the options the handler passes, lines 132-139, over the defaults
ApiOptions == [DefaultOptions EXCEPT !.useCache = TRUE]

BadRequest(error) == [status |-> 400, error |-> error]

\* the message of the catch of the handler (line 200) and of generateDiagram
\* (geminiService.ts, line 31)
GenericFailure ==
  "Failed to generate the architecture diagram. Please check the repository URL and try again."

\* the handler calls extractRepoContextRobust(url, ApiOptions)
ApiCallExtractor(url) ==
  /\ repoUrl' = url
  /\ options' = ApiOptions
  /\ startTime' = clock
  /\ calls' = calls + 1
  /\ tempDir' = "null"
  /\ workspace' = "absent"
  /\ rmFailed' = FALSE
  /\ cloneInvoked' = FALSE
  /\ result' = Null
  /\ prev' = Null
  /\ repo' = NoTree
  /\ pc' = "cache"
  /\ handler' = "extracting"
  /\ UNCHANGED <<clock, cacheIndex, cacheFiles, response>>

ApiRespond(resp) ==
  /\ response' = resp
  /\ handler' = "responded"
  /\ UNCHANGED <<pc, options, repo, pipeVars>>

\* a request arrives: line 108
ApiReceive ==
  /\ handler = "idle"
  /\ \E body \in RequestBodies : request' = body
  /\ handler' = "received"
  /\ UNCHANGED <<pc, options, repo, pipeVars, walkVars, treeVars, concVars, toolVars, response, aiCalled, caller>>

\* variant: a locator that cannot be converted is passed on as it is
ApiConvertUnchecked ==
  /\ handler = "received"
  /\ IF ~Truthy(request)
     THEN ApiRespond(BadRequest("Repository URL is required"))
     ELSE ApiCallExtractor(IF getGitCloneUrl(request) = Null
                           THEN request ELSE getGitCloneUrl(request))
  /\ UNCHANGED <<walkVars, treeVars, concVars, toolVars, request, aiCalled, caller>>

\* lines 110-139: the two checks of the locator and the call of the extraction
ApiConvert ==
  /\ handler = "received"
  /\ IF ~Truthy(request)
     THEN ApiRespond(BadRequest("Repository URL is required"))
     ELSE IF getGitCloneUrl(request) = Null
     THEN ApiRespond(BadRequest("Invalid GitHub repository URL"))
     ELSE ApiCallExtractor(getGitCloneUrl(request))
  /\ UNCHANGED <<walkVars, treeVars, concVars, toolVars, request, aiCalled, caller>>

\* lines 141-147: the extraction has returned a failure
ApiExtractionFailed ==
  /\ handler = "extracting"
  /\ pc = "done"
  /\ ~result.success
  /\ ApiRespond(BadRequest("Failed to analyze repository: " \o result.error.message))
  /\ UNCHANGED <<walkVars, treeVars, concVars, toolVars, request, aiCalled, caller>>

\* lines 149-198: the model is asked for the diagram; an empty answer or an
\* exception of the call ends in the catch with status 500
ApiGenerate ==
  /\ handler = "extracting"
  /\ pc = "done"
  /\ result.success
  /\ aiCalled' = TRUE
  /\ \E answered \in BOOLEAN :
       ApiRespond(IF answered
                  THEN [status |-> 200, filesAnalyzed |-> result.data.fileCount]
                  ELSE [status |-> 500, error |-> GenericFailure])
  /\ UNCHANGED <<walkVars, treeVars, concVars, toolVars, request, caller>>

(***************************************************************************)
(* generateDiagram of the client (geminiService.ts): it posts the locator, *)
(* throws the error text of a response that is not ok, and in its catch    *)
(* lets an error with "repository is too large" in its message through and *)
(* replaces every other one by GenericFailure.                             *)
(***************************************************************************)
TooLarge == "repository is too large"

\* the texts that stand before and after a phrase in the messages of the model
Fragments ==
  {"", "Sorry, ", ". Try a smaller repo.", "Failed to analyze repository: ",
   "Failed to analyze repository: Sorry, "}

\* String.prototype.includes
Includes(text, phrase) ==
  \E before, after \in Fragments : text = before \o phrase \o after

\* variant: the catch replaces every error
RethrowGeneric(message) == GenericFailure

\* lines 25-31: the catch of generateDiagram
Rethrow(message) ==
  IF Includes(message, TooLarge) THEN message ELSE GenericFailure

Rejected(message, cause) ==
  [state |-> "rejected", message |-> message, cause |-> cause]

FrameOfCaller ==
  UNCHANGED <<pc, options, repo, pipeVars, walkVars, treeVars, concVars, toolVars,
              handler, request, response, aiCalled>>

\* line 8: fetch is called
GenerateDiagramFetch ==
  /\ caller = Null
  /\ handler = "idle"
  /\ caller' = [state |-> "fetching"]
  /\ FrameOfCaller

\* fetch rejects (no connection, connection lost): the catch of line 23
GenerateDiagramNetworkError ==
  /\ caller # Null
  /\ caller.state = "fetching"
  /\ caller' = Rejected(Rethrow("Failed to fetch"), "network")
  /\ FrameOfCaller

\* lines 16-22: the response has arrived
GenerateDiagramResponse ==
  /\ caller # Null
  /\ caller.state = "fetching"
  /\ handler = "responded"
  /\ caller' = IF response.status = 200
               THEN [state |-> "resolved"]
               ELSE Rejected(Rethrow(response.error), "response")
  /\ FrameOfCaller

(***************************************************************************)
(* Calls of extractRepoContextRobust that overlap.  A call runs without    *)
(* interruption up to "await extractRepoContext" (execSync blocks), waits  *)
(* there for glob, and runs to its end after it.                           *)
(***************************************************************************)
\* lines 602-637: the name is chosen, a directory of that name is removed,
\* the directory is made and git clone runs in it; when the clone fails the
\* finally block removes the directory (cleanupOnError)
ConcPrepareAndClone(r) ==
  /\ pipelines[r].stage = "idle"
  /\ \E name \in TempNames, cloned \in BOOLEAN :
       IF cloned
       THEN /\ tempDirs' = [tempDirs EXCEPT ![name] = [madeBy |-> r, clonedBy |-> r]]
            /\ pipelines' = [pipelines EXCEPT ![r] = [stage |-> "extracting",
                                                      tempDir |-> name,
                                                      readFrom |-> 0]]
       ELSE /\ tempDirs' = [tempDirs EXCEPT ![name] = Null]
            /\ pipelines' = [pipelines EXCEPT ![r] = [stage |-> "done",
                                                      tempDir |-> name,
                                                      readFrom |-> 0]]
  /\ UNCHANGED <<pc, options, repo, pipeVars, walkVars, treeVars, apiVars, toolVars>>

\* lines 656-743: glob has answered; the files are read from cloneDir (a
\* missing file is skipped, a missing directory gives no candidates), and
\* the finally block removes the directory when it exists (cleanupOnSuccess)
ConcExtractAndCleanup(r) ==
  /\ pipelines[r].stage = "extracting"
  /\ LET name == pipelines[r].tempDir
     IN /\ pipelines' = [pipelines EXCEPT
                           ![r].stage = "done",
                           ![r].readFrom = IF tempDirs[name] = Null THEN 0
                                           ELSE tempDirs[name].clonedBy]
        /\ tempDirs' = [tempDirs EXCEPT ![name] = Null]
  /\ UNCHANGED <<pc, options, repo, pipeVars, walkVars, treeVars, apiVars, toolVars>>

(***************************************************************************)
(* runWithConcurrencyLimit (testRandomRepo.js).  A task is the way its     *)
(* promise settles; the value of task i is i.  The loop runs without       *)
(* interruption between two awaits, so a task settles only while the       *)
(* function awaits Promise.race or Promise.all, or between the settling    *)
(* that ends the race and the continuation of the loop.                    *)
(***************************************************************************)
Outcomes == {"resolve", "reject"}
TaskLists == UNION {[1..n -> Outcomes] : n \in 0..MaxTasks}
Limits == {1, 2, 3}

Range(seq) == {seq[i] : i \in 1..Len(seq)}

\* executing.splice(executing.indexOf(promise), 1)
Splice(seq, promise) == SelectSeq(seq, LAMBDA e : e # promise)

\* variant: the loop waits only when the limit is exceeded
LimitReachedLate(length, lim) == length > lim

\* executing.length >= limit, line 87
LimitReached(length, lim) == length >= lim

\* Promise.all(results): the values of the tasks in the order of results
AllValues(promises) == [k \in 1..Len(promises) |-> promises[k]]

LimitFrame ==
  UNCHANGED <<pc, options, repo, pipeVars, walkVars, treeVars, apiVars, concVars,
              mermaidVars, cacheCalls>>

\* lines 78-89: one turn of the for loop; Promise.race over an array that
\* holds a rejected promise rejects, and the await throws
LimitStartTask ==
  /\ runner = "loop"
  /\ nextTask <= Len(tasks)
  /\ LET exec == Append(executing, nextTask)
     IN /\ taskState' = [taskState EXCEPT ![nextTask] = "running"]
        /\ started' = Append(started, nextTask)
        /\ results' = Append(results, nextTask)
        /\ executing' = exec
        /\ IF LimitReached(Len(exec), limit)
           THEN IF \E j \in Range(exec) : taskState[j] = "rejected"
                THEN runner' = "rejected" /\ raced' = {}
                ELSE runner' = "racing" /\ raced' = Range(exec)
           ELSE runner' = "loop" /\ raced' = {}
  /\ nextTask' = nextTask + 1
  /\ UNCHANGED <<tasks, limit, settled, returned>>
  /\ LimitFrame

\* lines 79-82 and the awaits of lines 88 and 92: the promise of a task
\* settles; a resolved one is spliced out of executing; the first of the
\* raced promises that settles ends the race, a rejection ends Promise.all,
\* and so does the last resolution
LimitSettle(i) ==
  /\ i \in 1..Len(tasks)
  /\ taskState[i] = "running"
  /\ runner \in {"racing", "woken", "joining", "rejected"}
  /\ settled' = Append(settled, i)
  /\ IF tasks[i] = "resolve"
     THEN /\ taskState' = [taskState EXCEPT ![i] = "resolved"]
          /\ executing' = Splice(executing, i)
          /\ runner' = IF runner = "racing" /\ i \in raced THEN "woken"
                       ELSE IF runner = "joining"
                               /\ \A j \in Range(results) : taskState'[j] = "resolved"
                            THEN "resolved"
                       ELSE runner
     ELSE /\ taskState' = [taskState EXCEPT ![i] = "rejected"]
          /\ executing' = executing
          /\ runner' = IF (runner = "racing" /\ i \in raced) \/ runner = "joining"
                       THEN "rejected"
                       ELSE runner
  /\ returned' = IF runner' = "resolved" THEN AllValues(results) ELSE returned
  /\ raced' = IF runner' = "racing" THEN raced ELSE {}
  /\ UNCHANGED <<tasks, limit, results, nextTask, started>>
  /\ LimitFrame

\* the await of line 88 returns and the loop goes on
LimitResume ==
  /\ runner = "woken"
  /\ runner' = "loop"
  /\ UNCHANGED <<tasks, limit, taskState, executing, results, nextTask, raced,
                 started, settled, returned>>
  /\ LimitFrame

\* line 92: the loop is over and Promise.all(results) is returned
LimitJoin ==
  /\ runner = "loop"
  /\ nextTask > Len(tasks)
  /\ runner' = IF \E j \in Range(results) : taskState[j] = "rejected" THEN "rejected"
               ELSE IF \A j \in Range(results) : taskState[j] = "resolved" THEN "resolved"
               ELSE "joining"
  /\ returned' = IF runner' = "resolved" THEN AllValues(results) ELSE returned
  /\ UNCHANGED <<tasks, limit, taskState, executing, results, nextTask, raced,
                 started, settled>>
  /\ LimitFrame

(***************************************************************************)
(* validateMermaidDiagram (mermaidValidator).  A diagram is what the       *)
(* checks look at: whether it starts with a diagram type and which, the    *)
(* brackets and line breaks of its text in their order, the arrows it has, *)
(* whether it has a quote, and whether a warning applies to it.            *)
(***************************************************************************)
Openers == {"[", "(", "{"}
Closers == {"]", ")", "}"}
NewLine == "\n"

\* brackets[char], line 106
Closer(open) ==
  CASE open = "[" -> "]"
    [] open = "(" -> ")"
    [] open = "{" -> "}"

Texts == UNION {[1..n -> Openers \cup Closers \cup {NewLine}] : n \in 0..MaxChars}

Diagrams ==
  [kind : {"graph", "sequenceDiagram", "none"},
   text : Texts,
   arrows : {"none", "->", "-->"},
   quotes : BOOLEAN,
   warned : BOOLEAN]

\* diagramCode.split('\n')
RECURSIVE SplitLines(_)
SplitLines(text) ==
  IF \E i \in 1..Len(text) : text[i] = NewLine
  THEN LET i == CHOOSE j \in 1..Len(text) :
                  text[j] = NewLine /\ \A k \in 1..(j - 1) : text[k] # NewLine
       IN <<SubSeq(text, 1, i - 1)>> \o SplitLines(SubSeq(text, i + 1, Len(text)))
  ELSE <<text>>

\* variant: any closer closes any opener
MatchesAnyKind(lastOpen, char) == TRUE

\* brackets[lastOpen] === char, line 113
Matches(lastOpen, char) == Closer(lastOpen) = char

\* lines 109-119: the characters of one line from position i on; a mismatch
\* pushes an error and leaves the line
RECURSIVE ScanLine(_, _, _)
ScanLine(line, i, st) ==
  IF i > Len(line) THEN st
  ELSE IF line[i] \in Openers
    THEN ScanLine(line, i + 1, [st EXCEPT !.stack = Append(@, line[i])])
  ELSE IF line[i] \in Closers
    THEN IF st.stack = <<>>
         THEN [st EXCEPT !.errors = Append(@, "Mismatched brackets")]
         ELSE LET lastOpen == st.stack[Len(st.stack)]
                  popped == SubSeq(st.stack, 1, Len(st.stack) - 1)
              IN IF ~Matches(lastOpen, line[i])
                 THEN [stack |-> popped,
                       errors |-> Append(st.errors, "Mismatched brackets")]
                 ELSE ScanLine(line, i + 1, [st EXCEPT !.stack = popped])
  ELSE ScanLine(line, i + 1, st)

\* lines 108-120: line after line, with one stack for the whole text
RECURSIVE ScanLines(_, _, _)
ScanLines(textLines, n, st) ==
  IF n > Len(textLines) THEN st
  ELSE ScanLines(textLines, n + 1, ScanLine(textLines[n], 1, st))

\* lines 105-125 of checkBasicSyntax
BracketErrors(text) ==
  LET nonEmpty == SelectSeq(SplitLines(text), LAMBDA l : l # <<>>)
      st == ScanLines(nonEmpty, 1, [stack |-> <<>>, errors |-> <<>>])
  IN st.errors \o (IF st.stack # <<>> THEN <<"Unclosed brackets found">> ELSE <<>>)

\* lines 127-158 of checkBasicSyntax
DiagramErrors(d) ==
  (IF d.kind = "graph" /\ d.arrows # "-->"
        /\ ~ \E i \in 1..Len(d.text) : d.text[i] \in Openers
   THEN <<"Graph diagrams should contain nodes or connections">> ELSE <<>>)
  \o (IF d.kind = "graph" /\ d.arrows = "->"
      THEN <<"Possible incomplete arrow syntax">> ELSE <<>>)
  \o (IF d.kind = "sequenceDiagram" /\ d.arrows = "none"
      THEN <<"Sequence diagrams should contain participant interactions">> ELSE <<>>)

checkBasicSyntax(d) == BracketErrors(d.text) \o DiagramErrors(d)

ValidationResult(isValid, errors, warnings) ==
  [isValid |-> isValid, errors |-> errors, warnings |-> warnings]

\* lines 38-96
validateMermaidDiagram(d) ==
  IF d.text = <<>>
    THEN ValidationResult(FALSE, <<"Diagram code must be a non-empty string">>, <<>>)
  ELSE IF \A i \in 1..Len(d.text) : d.text[i] = NewLine
    THEN ValidationResult(FALSE, <<"Diagram code cannot be empty">>, <<>>)
  ELSE LET errors ==
             (IF d.kind = "none"
              THEN <<"Diagram must start with a valid Mermaid diagram type">> ELSE <<>>)
             \o checkBasicSyntax(d)
             \o (IF d.quotes THEN <<"Quotes detected in diagram">> ELSE <<>>)
           warnings == IF d.warned THEN <<"warning">> ELSE <<>>
       IN ValidationResult(errors = <<>>, errors, warnings)

ValidateMermaidDiagram ==
  /\ validationResult = Null
  /\ diagram # Null
  /\ validationResult' = validateMermaidDiagram(diagram)
  /\ UNCHANGED <<pc, options, repo, pipeVars, walkVars, treeVars, apiVars, concVars,
                 limitVars, diagram, cacheCalls>>

(***************************************************************************)
(* Specifications.                                                         *)
(***************************************************************************)
PipelineIdle ==
  /\ calls = 0
  /\ clock = 0
  /\ cacheIndex = [k \in CacheKeys |-> Null]
  /\ cacheFiles = [f \in CacheFilenames |-> Null]
  /\ repoUrl = EmptyUrl
  /\ startTime = 0
  /\ tempDir = "null"
  /\ workspace = "absent"
  /\ rmFailed = FALSE
  /\ cloneInvoked = FALSE
  /\ result = Null
  /\ prev = Null

\* calls of extractRepoContextRobust, one after the other, on an empty cache
Init ==
  /\ OtherIdle
  /\ pc = "idle"
  /\ options = DefaultOptions
  /\ repo = NoTree
  /\ PipelineIdle
  /\ WalkIdle

Next ==
  \/ StartCall
  \/ CacheLookup
  \/ Validate
  \/ PrepareWorkspace
  \/ CloneOk
  \/ CloneFail
  \/ CloneNoDirectory
  \/ ExtractBegin
  \/ ExtractFail
  \/ WalkFile
  \/ WalkEnd
  \/ ExtractReturn
  \/ CacheWrite
  \/ Finally

Spec == Init /\ [][Next]_vars

\* one call of extractRepoContext on any working tree with any budgets
InitWalk ==
  /\ OtherIdle
  /\ pc = "extract"
  /\ options \in WalkOptions
  /\ repo \in WalkTrees
  /\ PipelineIdle
  /\ WalkIdle

NextWalk ==
  \/ ExtractBegin
  \/ WalkFile
  \/ WalkEnd

SpecWalk == InitWalk /\ [][NextWalk]_vars

\* one request to /api/generate-diagram on a server that has just started
InitApi ==
  /\ OtherIdle
  /\ pc = "idle"
  /\ options = DefaultOptions
  /\ repo = NoTree
  /\ PipelineIdle
  /\ WalkIdle

NextApi ==
  \/ ApiReceive
  \/ ApiConvert
  \/ CacheLookup
  \/ Validate
  \/ PrepareWorkspace
  \/ CloneOk
  \/ CloneFail
  \/ CloneNoDirectory
  \/ ExtractBegin
  \/ ExtractFail
  \/ WalkFile
  \/ WalkEnd
  \/ ExtractReturn
  \/ Finally
  \/ CacheWrite
  \/ ApiExtractionFailed
  \/ ApiGenerate
  \/ GenerateDiagramFetch
  \/ GenerateDiagramNetworkError
  \/ GenerateDiagramResponse

SpecApi == InitApi /\ [][NextApi]_vars

\* calls of extractRepoContextRobust that overlap in one directory
InitConcurrent ==
  /\ OtherIdle
  /\ pc = "idle"
  /\ options = DefaultOptions
  /\ repo = NoTree
  /\ PipelineIdle
  /\ WalkIdle

NextConcurrent ==
  \/ \E r \in Requests : ConcPrepareAndClone(r)
  \/ \E r \in Requests : ConcExtractAndCleanup(r)

SpecConcurrent == InitConcurrent /\ [][NextConcurrent]_vars

\* one call runWithConcurrencyLimit(tasks, limit)
InitLimit ==
  /\ TreeIdle /\ ApiIdle /\ ConcIdle /\ MermaidIdle /\ CacheCallsIdle
  /\ pc = "idle"
  /\ options = DefaultOptions
  /\ repo = NoTree
  /\ PipelineIdle
  /\ WalkIdle
  /\ tasks \in TaskLists
  /\ limit \in Limits
  /\ taskState = [i \in 1..Len(tasks) |-> "new"]
  /\ executing = <<>>
  /\ results = <<>>
  /\ nextTask = 1
  /\ runner = "loop"
  /\ raced = {}
  /\ started = <<>>
  /\ settled = <<>>
  /\ returned = Null

NextLimit ==
  \/ LimitStartTask
  \/ \E i \in 1..MaxTasks : LimitSettle(i)
  \/ LimitResume
  \/ LimitJoin

SpecLimit == InitLimit /\ [][NextLimit]_vars

\* one call validateMermaidDiagram(diagramCode)
(***************************************************************************)
(* Calls that use the cache while another call is running.  Each call      *)
(* extracts on its own and then calls setCachedExtraction, which runs from *)
(* loadIndex to saveIndex without an await: a put is one step.             *)
(***************************************************************************)
\* the locators the calls are for
PutKeys == {NormalizeUrl(GitHubRepo), NormalizeUrl(OtherHostRepo)}

\* the time that passes between two steps
CacheTicks == {1000, CACHE_EXPIRY_MS}
\* the moments at which a step is taken
CacheClocks ==
  {0, 1000, 2000, CACHE_EXPIRY_MS, CACHE_EXPIRY_MS + 1000, CACHE_EXPIRY_MS + 2000}

\* the SUCCESS result call r has built (lines 670-684): its digest is its own
CacheResult(r) ==
  [type |-> "success", success |-> TRUE,
   data |-> [content |-> [parts |-> <<r>>, files |-> <<r>>, root |-> r, stamp |-> r],
             fileCount |-> 1, totalSize |-> r],
   duration |-> 1000]

FrameOfCache ==
  UNCHANGED <<pc, options, repo, calls, repoUrl, startTime, tempDir, workspace,
              rmFailed, cloneInvoked, result, prev, walkVars, treeVars, apiVars,
              concVars, limitVars, mermaidVars>>

\* a call for a locator starts: no entry is found, the extraction runs
CacheCallBegin(r) ==
  /\ r \in CacheRequests
  /\ cacheCalls[r].stage = "idle"
  /\ \E k \in PutKeys :
       /\ getCachedExtraction(k) = Null
       /\ cacheCalls' = [cacheCalls EXCEPT ![r] =
                           [@ EXCEPT !.stage = "extracting", !.key = k, !.began = clock]]
  /\ UNCHANGED <<clock, cacheIndex, cacheFiles>>
  /\ FrameOfCache

\* lines 687-696: the call puts its result
CacheCallPut(r) ==
  /\ r \in CacheRequests
  /\ cacheCalls[r].stage = "extracting"
  /\ \E writeOk, saveOk \in BOOLEAN :
       /\ setCachedExtraction(cacheCalls[r].key, CacheResult(r), writeOk, saveOk)
       /\ cacheCalls' = [cacheCalls EXCEPT ![r] =
                           [@ EXCEPT !.stage = "put", !.putAt = clock,
                                     !.stored = writeOk /\ saveOk]]
  /\ UNCHANGED clock
  /\ FrameOfCache

\* a later call for the same locator asks the cache
CacheCallGet(r) ==
  /\ r \in CacheRequests
  /\ cacheCalls[r].stage = "put"
  /\ cacheCalls' = [cacheCalls EXCEPT ![r] =
                      [@ EXCEPT !.stage = "got",
                                !.got = getCachedExtraction(cacheCalls[r].key)]]
  /\ UNCHANGED <<clock, cacheIndex, cacheFiles>>
  /\ FrameOfCache

CacheTick ==
  /\ \E t \in CacheTicks :
       /\ clock + t \in CacheClocks
       /\ clock' = clock + t
  /\ UNCHANGED <<cacheIndex, cacheFiles, cacheCalls>>
  /\ FrameOfCache

InitCache ==
  /\ OtherIdle
  /\ pc = "idle"
  /\ options = DefaultOptions
  /\ repo = NoTree
  /\ PipelineIdle
  /\ WalkIdle

NextCache ==
  \/ \E r \in CacheRequests : CacheCallBegin(r)
  \/ \E r \in CacheRequests : CacheCallPut(r)
  \/ \E r \in CacheRequests : CacheCallGet(r)
  \/ CacheTick

SpecCache == InitCache /\ [][NextCache]_vars

InitMermaid ==
  /\ TreeIdle /\ ApiIdle /\ ConcIdle /\ LimitIdle /\ CacheCallsIdle
  /\ pc = "idle"
  /\ options = DefaultOptions
  /\ repo = NoTree
  /\ PipelineIdle
  /\ WalkIdle
  /\ diagram \in Diagrams
  /\ validationResult = Null

NextMermaid == ValidateMermaidDiagram

SpecMermaid == InitMermaid /\ [][NextMermaid]_vars

\* one call of extractRepoContext on trees with files in .git, in
\* node_modules and named by the ignore files, for every choice of the flags
InitFilter ==
  /\ OtherIdle
  /\ pc = "extract"
  /\ options \in FilterOptions
  /\ repo \in FilterTrees
  /\ PipelineIdle
  /\ WalkIdle

SpecFilter == InitFilter /\ [][NextWalk]_vars

\* one call of generateDirectoryTree on any small tree with any limit
InitTree ==
  /\ pc = "tree"
  /\ options \in FilterOptions
  /\ repo = NoTree
  /\ PipelineIdle
  /\ WalkIdle
  /\ ApiIdle
  /\ ConcIdle
  /\ ToolIdle
  /\ rootDir \in RootDirs
  /\ maxItems \in TreeLimits
  /\ treeLines = <<>>
  /\ itemCount = 0
  /\ dirsRead = <<>>

NextTree == GenerateDirectoryTree

SpecTree == InitTree /\ [][NextTree]_vars

\* options of a caller that also asks for a fetch timeout of 30 seconds
TimeoutOptions == {o @@ [timeout |-> 30 * 1000] : o \in CallOptions}

\* a first call that has made its workspace and is about to run git clone
InitClone ==
  /\ OtherIdle
  /\ pc = "clone"
  /\ options \in CallOptions \cup TimeoutOptions
  /\ repo = NoTree
  /\ calls = 1
  /\ clock = 0
  /\ cacheIndex = [k \in CacheKeys |-> Null]
  /\ cacheFiles = [f \in CacheFilenames |-> Null]
  /\ repoUrl \in {u \in Locators : validateRepoUrl(u).valid}
  /\ startTime = 0
  /\ tempDir = "set"
  /\ workspace = "exists"
  /\ rmFailed = FALSE
  /\ cloneInvoked = FALSE
  /\ result = Null
  /\ prev = Null
  /\ WalkIdle

NextClone ==
  \/ CloneFailAny
  \/ CloneNoDirectory
  \/ Finally

\* the clone step of one call, failing in every way
SpecClone == InitClone /\ [][NextClone]_vars

(***************************************************************************)
(* Properties.                                                             *)
(***************************************************************************)
Returned == pc = "done"

WalkRunning == pc \in {"walk", "extracted"}

Last(s) == s[Len(s)]

SkippedWith(reason) == {i \in 1..Len(skippedFiles) : skippedFiles[i].reason = reason}

\* C1: every result returned by extractRepoContextRobust has exactly one of
\* data and error, and success (type "success") is true exactly when data is
\* the one present.
C1_ExactlyOneOfDataAndError ==
  Returned =>
    /\ ("data" \in DOMAIN result) # ("error" \in DOMAIN result)
    /\ result.success = ("data" \in DOMAIN result)
    /\ (result.type = "success") = result.success

\* a call answered from the cache has returned
C1_Witness ==
  /\ Returned
  /\ ~cloneInvoked
  /\ "data" \in DOMAIN result
  /\ result.success

\* C2: in the file walk the running total equals the length of everything
\* emitted so far (it starts at the length of header, tree and exclusion
\* summary), and a section is appended only if the total before the append
\* plus the length of the section does not exceed maxOutputChars.
C2_CheckBeforeAppend ==
  [][ /\ (pc' = "walk" => outputChars' = SumSeq(outputParts'))
      /\ (pc = "walk" /\ fileCount' = fileCount + 1 =>
            /\ outputParts' = Append(outputParts, Last(outputParts'))
            /\ SumSeq(outputParts) + Last(outputParts') <= options.maxOutputChars) ]_vars

\* a section that fits the budget exactly has been appended, and a later
\* candidate has been refused for the budget
C2_Witness ==
  /\ pc = "walk"
  /\ fileCount = 1
  /\ outputChars = options.maxOutputChars
  /\ SkippedWith("character limit reached") # {}

\* C3: the emitted digest never is longer than maxOutputChars.
C3_DigestWithinBudget ==
  WalkRunning => SumSeq(outputParts) <= options.maxOutputChars

\* C4: during the walk every visited candidate has been counted once, and
\* at the end of the walk fileCount + skippedCount is the number of
\* candidates, each of them either included once or skipped once with one
\* reason.
C4_EveryCandidateCountedOnce ==
  /\ pc = "walk" => fileCount + skippedCount = idx - 1
  /\ pc = "extracted" =>
       /\ fileCount + skippedCount = Len(filteredFiles)
       /\ fileCount = Len(processedFiles)
       /\ skippedCount = Len(skippedFiles)
       /\ \A f \in 1..Len(filteredFiles) :
            Cardinality({i \in 1..Len(processedFiles) :
                           processedFiles[i] = filteredFiles[f].path})
            + Cardinality({i \in 1..Len(skippedFiles) :
                             skippedFiles[i].path = filteredFiles[f].path}) = 1

\* a walk has ended with included files and with skips for two reasons
C4_Witness ==
  /\ pc = "extracted"
  /\ Len(filteredFiles) = MaxCandidates
  /\ fileCount > 0
  /\ SkippedWith("read error") # {}
  /\ SkippedWith("character limit reached") # {}

\* C5: the number of included files never exceeds maxFiles, and a file is
\* refused for the file count only when maxFiles files are included: skipped
\* files do not count against the limit.
C5_IncludedWithinMaxFiles ==
  WalkRunning =>
    /\ fileCount <= options.maxFiles
    /\ Len(processedFiles) <= options.maxFiles
    /\ (SkippedWith("max files limit reached") # {} => fileCount = options.maxFiles)

\* the limit has been reached after a file was skipped for its size
C5_Witness ==
  /\ pc = "extracted"
  /\ options.maxFiles = 1
  /\ fileCount = 1
  /\ SkippedWith("max files limit reached") # {}
  /\ skippedFiles[1].reason = "file too large"

EntryUnexpired(key) ==
  /\ cacheIndex[key] # Null
  /\ clock - cacheIndex[key].timestamp <= CACHE_EXPIRY_MS

EntryStale(key) ==
  /\ cacheIndex[key] # Null
  /\ clock - cacheIndex[key].timestamp > CACHE_EXPIRY_MS

SameLocatorAgain ==
  /\ prev # Null
  /\ prev.repoUrl = repoUrl
  /\ prev.useCache
  /\ options.useCache
  /\ prev.result.success

C8_InvalidLocatorNoWorkspaceNoClone ==
  calls > 0 /\ ~validateRepoUrl(repoUrl).valid =>
    /\ tempDir = "null"
    /\ workspace = "absent"
    /\ ~cloneInvoked

\* the call for "not-a-valid-url" has returned its validationResult error
C8_Witness ==
  /\ Returned
  /\ repoUrl = NotAUrl
  /\ result.type = "validation_error"
  /\ workspace = "absent"

\* C9: a locator that fails validateRepoUrl gets a VALIDATION_ERROR result in
\* every cache state.
C9_InvalidLocatorGetsValidationError ==
  Returned /\ ~validateRepoUrl(repoUrl).valid => result.type = "validation_error"

\* C10: when the removal does not fail, a workspace that was created is
\* removed on SUCCESS exactly if cleanupOnSuccess is set, and on CLONE_ERROR
\* or EXTRACTION_ERROR exactly if cleanupOnError is set.
C10_CleanupFollowsItsFlag ==
  Returned /\ workspace # "absent" /\ ~rmFailed =>
    /\ (result.type = "success" =>
          ((workspace = "removed") = options.cleanupOnSuccess))
    /\ (result.type \in {"clone_error", "extraction_error"} =>
          ((workspace = "removed") = options.cleanupOnError))

\* C11: with cleanupOnSuccess and cleanupOnError at their defaults (true), a
\* call that created its temporary workspace has removed it when it returns,
\* whatever its outcome, unless the removal itself failed.
C11_DefaultsRemoveWorkspace ==
  Returned /\ options.cleanupOnSuccess /\ options.cleanupOnError
           /\ workspace # "absent" /\ ~rmFailed
    => workspace = "removed"

\* a call with the default flags has returned an extraction error after it
\* cloned into its workspace, and the workspace is gone
C11_Witness ==
  /\ Returned
  /\ options.cleanupOnSuccess /\ options.cleanupOnError
  /\ cloneInvoked
  /\ result.type = "extraction_error"
  /\ workspace = "removed"

\* the categories of clone failures in the order of the scan, by the phrase
\* each is named after
CategoryMatches(n, stderr, timedOut) ==
  CASE n = 1 -> timedOut
    [] n = 2 -> "repository not found" \in stderr
    [] n = 3 -> "could not resolve host" \in stderr
    [] n = 4 -> "permission denied" \in stderr \/ "authentication failed" \in stderr
    [] n = 5 -> "not a git repository" \in stderr

CategoryType(n) ==
  CASE n = 1 -> "timeout"
    [] n = 2 -> "repository_not_found"
    [] n = 3 -> "network_error"
    [] n = 4 -> "permission_denied"
    [] n = 5 -> "invalid_url"

MatchedCategories(stderr, timedOut) == {n \in 1..5 : CategoryMatches(n, stderr, timedOut)}

Earliest(S) == CHOOSE n \in S : \A m \in S : n <= m

\* the running call has got the result of a clone that failed
CloneFailed ==
  /\ pc \in {"finally", "done"}
  /\ result.type = "clone_error"
  /\ "stderr" \in DOMAIN result.error

\* message of the error of execSync contains ETIMEDOUT
TimedOut == result.error.originalError[2]

\* C12: when the diagnostics of a failed clone match several categories the
\* error type is that of the earliest one in the order timeout, repository
\* not found, could not resolve host, permission denied / authentication
\* failed, not a git repository; when they match none it is unknown.
C12_EarliestCategoryWins ==
  CloneFailed =>
    LET matched == MatchedCategories(result.error.stderr, TimedOut)
    IN /\ (Cardinality(matched) >= 2 =>
             result.error.type = CategoryType(Earliest(matched)))
       /\ (matched = {} => result.error.type = "unknown")

\* diagnostics that name a missing repository, an unknown host and a refused
\* permission have been classified
C12_Witness ==
  /\ CloneFailed
  /\ ~TimedOut
  /\ {"repository not found", "could not resolve host", "permission denied"}
       \subseteq result.error.stderr
  /\ result.error.type = "repository_not_found"

\* C13: diagnostics that contain "not a git repository" and match no category
\* of higher priority are classified as invalid_url.
C13_NotAGitRepositoryIsInvalidTarget ==
  CloneFailed /\ MatchedCategories(result.error.stderr, TimedOut) = {5}
    => result.error.type = "invalid_url"

\* the timeout the request asks for; without one, that of line 619
RequestedTimeout(opts) ==
  IF "timeout" \in DOMAIN opts THEN opts.timeout ELSE CLONE_TIMEOUT_MS

\* C14: a clone that does not finish is stopped when the timeout of the
\* request has passed, and the call gets a clone_error of type timeout.
C14_CloneStoppedAtRequestedTimeout ==
  [][ pc = "clone" /\ pc' = "finally" /\ "stderr" \in DOMAIN result'.error
        /\ result'.error.originalError[2] =>
        /\ result'.type = "clone_error"
        /\ result'.error.type = "timeout"
        /\ clock' - clock = RequestedTimeout(options) ]_vars

\* C15: the cache write, failing or not, leaves the result of the extraction
\* as it is, and that success is what the call returns.
C15_CacheWriteKeepsResult ==
  [][ /\ (pc = "cache_write" =>
            /\ pc' = "finally"
            /\ result' = result
            /\ result'.type = "success"
            /\ "data" \in DOMAIN result')
      /\ (pc = "finally" => result' = result) ]_vars

\* a fresh extraction has returned its success although the index could not
\* be saved after the content file was written
C15_Witness ==
  /\ Returned
  /\ calls = 1
  /\ options.useCache
  /\ cloneInvoked
  /\ result.type = "success"
  /\ cacheFiles[generateFilename(NormalizeUrl(repoUrl))] = result.data.content
  /\ cacheIndex[NormalizeUrl(repoUrl)] = Null

\* C16: the duration of a result served from the cache is the time that call
\* took.
C16_CacheHitReportsOwnDuration ==
  Returned /\ result.type = "success" /\ ~cloneInvoked
    => result.duration = clock - startTime

\* two locators that differ in the ".git" suffix only
DotGitVariants(a, b) ==
  /\ a # b
  /\ a.scheme = b.scheme
  /\ a.host = b.host
  /\ a.segs = b.segs

\* an unexpired entry of the index holds this digest
CachedUnexpired(content) ==
  \E k \in DOMAIN cacheIndex :
    /\ cacheIndex[k] # Null
    /\ clock - cacheIndex[k].timestamp <= CACHE_EXPIRY_MS
    /\ cacheFiles[cacheIndex[k].filename] = content

StoredForm(extractionResult) ==
  [data |-> [content |-> extractionResult.data.content,
             fileCount |-> extractionResult.data.fileCount,
             totalSize |-> extractionResult.data.totalSize],
   duration |-> extractionResult.duration]

VisitedTooLarge ==
  {i \in 1..(idx - 1) : filteredFiles[i].statOk /\ filteredFiles[i].size > options.maxFileSize}

\* C19 as stated: every candidate whose size exceeds maxFileSize is in the
\* skipped list with the reason "file too large" and has no section.
C19_TooLargeAlwaysListedAsTooLarge ==
  WalkRunning =>
    \A i \in VisitedTooLarge :
      /\ \E j \in 1..Len(skippedFiles) :
           /\ skippedFiles[j].path = filteredFiles[i].path
           /\ skippedFiles[j].reason = "file too large"
      /\ \A j \in 1..Len(processedFiles) : processedFiles[j] # filteredFiles[i].path

\* C19 (amended): a candidate whose size is known and exceeds maxFileSize is
\* skipped without being read and gets no section; its reason is "file too
\* large" when fewer than maxFiles files are included at that point, and
\* "max files limit reached" otherwise.
C19_TooLargeSkippedUnread ==
  [][ /\ pc = "walk"
      /\ idx <= Len(filteredFiles)
      /\ filteredFiles[idx].statOk
      /\ filteredFiles[idx].size > options.maxFileSize
      => /\ skippedFiles' =
              Append(skippedFiles,
                     [path |-> filteredFiles[idx].path,
                      pathLen |-> filteredFiles[idx].pathLen,
                      reason |-> IF fileCount < options.maxFiles
                                 THEN "file too large"
                                 ELSE "max files limit reached"])
         /\ outputParts' = outputParts
         /\ processedFiles' = processedFiles ]_vars

\* a file that is too large and cannot be read as text has been skipped for
\* its size, after another file had been skipped for another reason
C19_Witness ==
  /\ pc = "extracted"
  /\ \E j \in 2..Len(skippedFiles) :
       /\ skippedFiles[j].reason = "file too large"
       /\ \E f \in 1..Len(filteredFiles) :
            /\ filteredFiles[f].path = skippedFiles[j].path
            /\ ~filteredFiles[f].readOk
       /\ skippedFiles[1].reason = "read error"

\* C20: no file of the .git directory is a candidate or gets a file section,
\* for every combination of respectGitIgnore, respectGeminiIgnore and
\* useDefaultExcludes.
C20_DotGitNeverCandidate ==
  WalkRunning =>
    /\ \A i \in 1..Len(filteredFiles) : filteredFiles[i].dir # ".git"
    /\ \A j \in 1..Len(processedFiles) :
         \A f \in 1..Len(repo.files) :
           repo.files[f].path = processedFiles[j] => repo.files[f].dir # ".git"

\* the lines of entries among the lines of a rendered tree
EntryLines(ls) == SelectSeq(ls, LAMBDA l : l.kind \in {"entry", "collapsed"})

MarkerCount(ls) == Len(SelectSeq(ls, LAMBDA l : l.kind = "marker"))

TreeRendered == pc = "tree_done"

\* a path is matched by a layer of exclusion rules that is switched on
FileMatchedByEnabledLayer(opts, file) ==
  \/ shouldIgnore(opts, file)
  \/ opts.useDefaultExcludes /\ MatchesDefaultExcludes(file)

LineMatchedByEnabledLayer(opts, line) ==
  \/ opts.respectGitIgnore /\ line.gitIgnored
  \/ opts.respectGeminiIgnore /\ line.geminiIgnored
  \/ opts.useDefaultExcludes /\ line.defaultExcluded

\* C21: a path matched by an enabled exclusion layer (.gitignore,
\* .geminiignore, the default patterns) is no candidate, has no file section
\* and is no entry of the rendered directory tree.
C21_ExcludedPathsNowhere ==
  /\ WalkRunning =>
       \A i \in 1..Len(filteredFiles) : ~FileMatchedByEnabledLayer(options, filteredFiles[i])
  /\ TreeRendered =>
       \A i \in 1..Len(treeLines) :
         treeLines[i].kind \in {"entry", "collapsed"}
           => ~LineMatchedByEnabledLayer(options, treeLines[i])

\* the limit has kept an entry out of the tree that would be in it otherwise
EntryOmitted ==
  Len(EntryLines(generateDirectoryTree(rootDir, options, MAX_TREE_ITEMS).lines))
    > Len(EntryLines(treeLines))

\* C22: when generateDirectoryTree leaves out an entry because maxItems
\* entries are emitted, its output has the truncation marker exactly once.
C22_OmissionIsMarkedOnce ==
  TreeRendered /\ EntryOmitted => MarkerCount(treeLines) = 1

\* C23: generateDirectoryTree emits at most maxItems entry lines and at most
\* one truncation marker, and reads no directory once maxItems entry lines
\* are emitted.
C23_TreeWithinMaxItems ==
  TreeRendered =>
    /\ Len(EntryLines(treeLines)) <= maxItems
    /\ MarkerCount(treeLines) <= 1
    /\ \A i \in 1..Len(dirsRead) : dirsRead[i] < maxItems

\* a tree has been cut at its limit inside a subdirectory: the marker is
\* there, entries are left out and the directories after the cut are unread
C23_Witness ==
  /\ TreeRendered
  /\ maxItems = 2
  /\ Len(EntryLines(treeLines)) = 2
  /\ MarkerCount(treeLines) = 1
  /\ EntryOmitted
  /\ Len(dirsRead) = 1

\* the call has returned a failure result
ReturnedFailure == Returned /\ ~result.success

\* C24: every failure result has a kind tag, a non-empty message and a
\* non-empty suggestion, and the stderr of the clone is on every CLONE_ERROR
\* result and on no other failure result.
C24_FailurePayload ==
  ReturnedFailure =>
    /\ result.type \in {"validation_error", "clone_error", "extraction_error"}
    /\ "type" \in DOMAIN result.error
    /\ "message" \in DOMAIN result.error /\ result.error.message # ""
    /\ "suggestion" \in DOMAIN result.error /\ result.error.suggestion # ""
    /\ (result.type = "clone_error") = ("stderr" \in DOMAIN result.error)

\* the content file and the index entry of a key were stored by the same
\* call: the digest has the time of its extraction in its header, and no time
\* passes in the model between the extraction and the write of the entry
FromOneCall(key) ==
  LET entry == cacheIndex[key]
  IN entry # Null /\ cacheFiles[entry.filename] # Null
       => cacheFiles[entry.filename].stamp = entry.timestamp

\* C26: whatever calls of setCachedExtraction were made for a key, also calls
\* of which one of the two writes failed, the stored content file and the
\* index entry of the key come from one and the same call.
C26_EntryFromOneCall ==
  \A key \in CacheKeys : FromOneCall(key)

\* the loop takes its turn for the candidate at idx
WalkStep == pc = "walk" /\ idx <= Len(filteredFiles) /\ idx' = idx + 1

\* the four checks of a candidate in their order, with the reason of each
WalkChecks(file) ==
  LET processed == processFileContent(file.lines, options.maxLinesPerFile,
                                      options.maxLineLength)
  IN << [fails |-> fileCount >= options.maxFiles,
         reason |-> "max files limit reached"],
        [fails |-> file.size > options.maxFileSize,
         reason |-> "file too large"],
        [fails |-> ~file.readOk,
         reason |-> "not a text file"],
        [fails |-> outputChars + FileSectionLength(file, processed)
                     > options.maxOutputChars,
         reason |-> "character limit reached"] >>

\* the first check that fails, 0 when none does
FirstFailing(checks) ==
  IF \E n \in 1..Len(checks) : checks[n].fails
  THEN CHOOSE n \in 1..Len(checks) :
         checks[n].fails /\ \A m \in 1..(n - 1) : ~checks[m].fails
  ELSE 0

SkipRecord(file, reason) ==
  [path |-> file.path, pathLen |-> file.pathLen, reason |-> reason]

\* C28: a candidate is skipped with the reason of the first check that fails
\* in the order file count, byte size, text, character budget, and is included
\* when none fails; once fileCount has reached maxFiles a candidate is skipped
\* with the file-count reason and neither stat-ed nor read, and a candidate
\* that is too large is not read.
C28_FirstFailingCheckGivesReason ==
  [][ WalkStep =>
        LET file == filteredFiles[idx]
            checks == WalkChecks(file)
            n == FirstFailing(checks)
        IN /\ n = 1 =>
                /\ skippedFiles' = Append(skippedFiles, SkipRecord(file, checks[1].reason))
                /\ fsCalls' = fsCalls
           /\ n > 1 /\ file.statOk =>
                /\ skippedFiles' = Append(skippedFiles, SkipRecord(file, checks[n].reason))
                /\ processedFiles' = processedFiles
           /\ n = 2 /\ file.statOk => fsCalls' = Append(fsCalls, StatCall(file))
           /\ n = 0 /\ file.statOk =>
                /\ skippedFiles' = skippedFiles
                /\ processedFiles' = Append(processedFiles, file.path) ]_vars

\* after files were included up to maxFiles, a candidate above the byte
\* limit has been skipped for the file count, with no call of fs for it
C28_Witness ==
  /\ pc = "walk"
  /\ idx > 1
  /\ fileCount > 0
  /\ skippedFiles # <<>>
  /\ LET file == filteredFiles[idx - 1]
     IN /\ file.statOk
        /\ file.size > options.maxFileSize
        /\ Last(skippedFiles) = SkipRecord(file, "max files limit reached")
        /\ \A c \in 1..Len(fsCalls) : fsCalls[c].path # file.path

\* fs.statSync or fs.readFileSync throws for the candidate the loop visits
\* (the read is reached when the count and the size let the file through)
PerFileFailure(file) ==
  /\ fileCount < options.maxFiles
  /\ \/ ~file.statOk
     \/ file.statOk /\ file.size <= options.maxFileSize /\ ~file.readOk

\* C29: a candidate whose stat or read fails is skipped with the read-error
\* reason; the character total, fileCount and totalSize stay as they are, and
\* the loop goes on with the next candidate.
C29_PerFileFailureIsReadError ==
  [][ WalkStep /\ PerFileFailure(filteredFiles[idx]) =>
        /\ skippedFiles' = Append(skippedFiles,
                                  SkipRecord(filteredFiles[idx], "read error"))
        /\ UNCHANGED <<outputChars, fileCount, totalSize, processedFiles>>
        /\ pc' = "walk" ]_vars

\* the stages of one call in their order
StageRank(stage) ==
  CASE stage = "idle" -> 0
    [] stage = "cache" -> 1
    [] stage = "validate" -> 2
    [] stage = "prepare" -> 3
    [] stage = "clone" -> 4
    [] stage = "extract" -> 5
    [] stage = "walk" -> 6
    [] stage = "extracted" -> 7
    [] stage = "cache_write" -> 8
    [] stage = "finally" -> 9
    [] stage = "done" -> 10

\* the running call has a failure result of the given kind
FailedWith(type) == result # Null /\ ~result.success /\ result.type = type

CacheUnchanged == UNCHANGED <<cacheIndex, cacheFiles>>

\* C30: within one call the stages follow one another in their order; the
\* extraction starts only from a clone that returned and left its directory;
\* a clone that fails gives CLONE_ERROR, an extraction that fails gives
\* EXTRACTION_ERROR, and after either only the cleanup follows: no extraction,
\* no cache write, the result stays; git clone runs at most once per call.
C30_StagesInOrder ==
  [][ /\ (pc \notin {"idle", "done"} /\ pc' # pc => StageRank(pc') > StageRank(pc))
      /\ (pc # "extract" /\ pc' = "extract" =>
            pc = "clone" /\ cloneInvoked' /\ repo' # NoTree /\ result' = Null)
      /\ (pc = "clone" /\ pc' # "extract" =>
            pc' = "finally" /\ FailedWith("clone_error")' /\ CacheUnchanged)
      /\ (pc = "extract" /\ pc' # "walk" =>
            pc' = "finally" /\ FailedWith("extraction_error")' /\ CacheUnchanged)
      /\ (pc = "finally" /\ result # Null /\ ~result.success =>
            pc' = "done" /\ result' = result /\ CacheUnchanged /\ UNCHANGED walkVars)
      /\ (~CacheUnchanged => pc = "cache_write" /\ result.success)
      /\ (cloneInvoked' /\ ~cloneInvoked => pc = "clone")
      /\ (pc = "clone" => ~cloneInvoked) ]_vars

\* a call whose clone failed has returned CLONE_ERROR after the cleanup, with
\* no extraction made and the entry of an earlier call still in the cache
C30_Witness ==
  /\ pc = "done"
  /\ calls = 2
  /\ FailedWith("clone_error")
  /\ cloneInvoked
  /\ filteredFiles = <<>>
  /\ workspace = "removed"
  /\ cacheIndex[NormalizeUrl(repoUrl)] # Null

\* the locator of the request cannot be converted: getGitCloneUrl has no
\* clone URL for it
NotConvertible == request # Null /\ getGitCloneUrl(request) = Null

\* C25: when getGitCloneUrl gives null for the locator of a request, the
\* handler answers with status 400 and extractRepoContextRobust is never
\* called for it: no cache lookup, no workspace, no clone, no AI call.
C25_NullCloneUrlEndsWith400 ==
  NotConvertible =>
    /\ calls = 0
    /\ pc = "idle"
    /\ tempDir = "null" /\ workspace = "absent"
    /\ ~cloneInvoked
    /\ ~aiCalled
    /\ handler \in {"received", "responded"}
    /\ handler = "responded" => response.status = 400

\* a locator that is a string of another host was answered with 400
C25_Witness ==
  /\ handler = "responded"
  /\ request = OtherHostRepo
  /\ getGitCloneUrl(request) = Null
  /\ response = BadRequest("Invalid GitHub repository URL")
  /\ calls = 0

\* the call is between the making of its workspace and its cleanup
InProgress(r) == pipelines[r].stage = "extracting"

\* C27: the workspace of a call that is in progress is the directory this
\* call has made and cloned into: no other call has removed it (also not when
\* it prepares its own workspace) or cloned into it, and a call reads the
\* files of its own clone only.
C27_WorkspacesAreDisjoint ==
  \A r \in Requests :
    /\ InProgress(r) =>
         tempDirs[pipelines[r].tempDir] = [madeBy |-> r, clonedBy |-> r]
    /\ pipelines[r].readFrom \in {0, r}
    /\ \A q \in Requests :
         q # r /\ InProgress(q) /\ InProgress(r)
           => pipelines[q].tempDir # pipelines[r].tempDir

\* the candidates that have a file section, and the processed content of one
AdmittedFiles ==
  {filteredFiles[i] : i \in {j \in 1..Len(filteredFiles) :
                               \E k \in 1..Len(processedFiles) :
                                 processedFiles[k] = filteredFiles[j].path}}

SectionOf(file) ==
  processFileContent(file.lines, options.maxLinesPerFile, options.maxLineLength)

\* the three characters of the mark '...' that follows a line that was cut
EllipsisLength == 3

\* C31 as stated: every content line of the section of an admitted file has
\* at most maxLineLength characters, at most maxLinesPerFile lines are kept
\* and the notice gives the number of lines dropped.
C31_LinesWithinLimits ==
  WalkRunning =>
    \A file \in AdmittedFiles :
      LET section == SectionOf(file)
      IN /\ \A i \in 1..Len(section.lines) : section.lines[i] <= options.maxLineLength
         /\ Len(section.lines) <= options.maxLinesPerFile
         /\ section.omitted = Len(file.lines) - Len(section.lines)

\* C31, amended: a content line keeps at most maxLineLength characters of
\* the line of the file and a line that was cut is followed by the mark
\* '...', so it has maxLineLength + 3 characters; at most maxLinesPerFile
\* lines are kept, and the notice gives the number of lines dropped, the
\* number of lines of the file minus maxLinesPerFile.
C31_LinesCutAndMarked ==
  WalkRunning =>
    \A file \in AdmittedFiles :
      LET section == SectionOf(file)
      IN /\ Len(section.lines) = Min(Len(file.lines), options.maxLinesPerFile)
         /\ \A i \in 1..Len(section.lines) :
              section.lines[i] = IF file.lines[i] > options.maxLineLength
                                 THEN options.maxLineLength + EllipsisLength
                                 ELSE file.lines[i]
         /\ section.omitted = Len(file.lines) - Len(section.lines)
         /\ (section.omitted > 0) = (Len(file.lines) > options.maxLinesPerFile)

\* a file of three lines, one of them longer than the limit, has a section
\* with two lines kept and one dropped
C31_Witness ==
  /\ WalkRunning
  /\ \E file \in AdmittedFiles :
       /\ Len(file.lines) > options.maxLinesPerFile
       /\ file.lines[1] > options.maxLineLength
       /\ SectionOf(file).omitted = 1
       /\ SectionOf(file).lines[1] = options.maxLineLength + EllipsisLength

\* the tasks that were started and have not settled
InFlight == {i \in 1..Len(tasks) : taskState[i] = "running"}

\* runWithConcurrencyLimit has settled
LimitSettled == runner \in {"resolved", "rejected"}

InListOrder(seq) == \A k \in 1..Len(seq) : seq[k] = k

BracketsOf(text) == SelectSeq(text, LAMBDA c : c \in Openers \cup Closers)

RECURSIVE Reduce(_)
Reduce(seq) ==
  IF \E i \in 1..(Len(seq) - 1) : seq[i] \in Openers /\ seq[i + 1] = Closer(seq[i])
  THEN LET i == CHOOSE j \in 1..(Len(seq) - 1) :
                  seq[j] \in Openers /\ seq[j + 1] = Closer(seq[j])
       IN Reduce(SubSeq(seq, 1, i - 1) \o SubSeq(seq, i + 2, Len(seq)))
  ELSE seq

WellNested(text) == Reduce(BracketsOf(text)) = <<>>

HasBracketError(v) ==
  \E i \in 1..Len(v.errors) :
    v.errors[i] \in {"Mismatched brackets", "Unclosed brackets found"}

Validated == validationResult # Null

\* the text has something else than line breaks, so that the checks run
NonEmptyText(d) == \E i \in 1..Len(d.text) : d.text[i] # NewLine

\* C33: a diagram whose brackets are not well nested over its whole text is
\* invalid, a diagram whose brackets are well nested has no bracket error,
\* and a diagram without errors is valid whatever its warnings.
C33_BracketsDecideValidity ==
  Validated =>
    /\ ~WellNested(diagram.text) => ~validationResult.isValid /\ HasBracketError(validationResult)
    /\ WellNested(diagram.text) => ~HasBracketError(validationResult)
    /\ validationResult.isValid = (validationResult.errors = <<>>)
    /\ (NonEmptyText(diagram) /\ WellNested(diagram.text) /\ diagram.kind = "graph"
          /\ diagram.arrows = "-->" /\ ~diagram.quotes) => validationResult.isValid

\* an opener of one line closed by a closer of another kind two lines on is
\* reported, and a diagram with a warning and nested brackets is valid
C33_Witness ==
  /\ Validated
  /\ \/ /\ diagram.text = <<"(", NewLine, "]">>
        /\ ~validationResult.isValid
     \/ /\ diagram.text = <<"[", "(", ")", "]">>
        /\ diagram.warned
        /\ validationResult.isValid
        /\ validationResult.warnings # <<>>


\* the extraction of the request ended as a clone that was stopped at the timeout
CloneTimedOut ==
  /\ result # Null
  /\ ~result.success
  /\ result.type = "clone_error"
  /\ result.error.type = "timeout"

CallerRejected == caller # Null /\ caller.state = "rejected"

\* C34: when generateDiagram rejects after a response that reports a clone
\* stopped at the timeout, its message contains "repository is too large";
\* when it rejects for any other reason (locator refused, another clone
\* error, extraction error, failure of the AI call, network error) its message
\* is the one generic failure message.
C34_OnlyTimeoutKeepsItsText ==
  CallerRejected =>
    IF caller.cause = "response" /\ CloneTimedOut
    THEN Includes(caller.message, TooLarge) /\ caller.message # GenericFailure
    ELSE caller.message = GenericFailure

C34_Witness ==
  /\ CallerRejected
  /\ caller.cause = "response"
  /\ CloneTimedOut
  /\ response.status = 400
  /\ Includes(caller.message, TooLarge)


\* the fields of data that printResult reads (lines 776-788), and content,
\* which extractAndSave writes (line 754)
SuccessDataFields ==
  {"content", "fileCount", "skippedCount", "totalSize", "excludedPatterns", "repoUrl"}

\* printResult, lines 773-789: result.data.excludedPatterns.length throws a
\* TypeError when the field is missing; the other fields are only printed
printResultThrows(r) ==
  r.success /\ "excludedPatterns" \notin DOMAIN r.data

\* extractAndSave, lines 752-762: writes result.data.content inside a try
extractAndSaveThrows(r) == FALSE

ReturnedSuccess == pc = "done" /\ result # Null /\ result.success

\* C35: every success result, fresh or from the cache, has the data fields
\* content, fileCount, skippedCount, totalSize, excludedPatterns and repoUrl,
\* and printResult and extractAndSave do not throw on it.
C35_SuccessResultsHaveOneShape ==
  ReturnedSuccess =>
    /\ SuccessDataFields \subseteq DOMAIN result.data
    /\ ~printResultThrows(result)
    /\ ~extractAndSaveThrows(result)


HasFailed == result # Null /\ ~result.success

CacheEmpty ==
  /\ \A k \in CacheKeys : cacheIndex[k] = Null
  /\ \A f \in CacheFilenames : cacheFiles[f] = Null

\* the call returns what the cache holds for its locator
CacheHit == pc = "cache" /\ pc' = "done"

\* C36: the cache changes only in the cache write of a fresh extraction that
\* ended as SUCCESS, and only for the locator of that call; no step that
\* produces, carries or returns a failure result changes index or content
\* files; while no call has succeeded the cache stays empty, and a call is
\* served from the cache only when an entry with its content file is there.
C36_OnlySuccessWritesCache ==
  [][ /\ (~CacheUnchanged =>
            /\ pc = "cache_write" /\ options.useCache
            /\ result.success /\ result.type = "success" /\ cloneInvoked
            /\ \A k \in CacheKeys \ {NormalizeUrl(repoUrl)} : cacheIndex'[k] = cacheIndex[k])
      /\ (HasFailed \/ HasFailed' => CacheUnchanged)
      /\ (HasFailed' /\ (prev' # Null => ~prev'.result.success) /\ calls' <= 2 => CacheEmpty')
      /\ (CacheHit => /\ cacheIndex[NormalizeUrl(repoUrl)] # Null
                      /\ cacheFiles[cacheIndex[NormalizeUrl(repoUrl)].filename] # Null) ]_vars

\* the second call for a locator whose first call failed is not served from
\* the cache: it has got as far as running git clone
C36_Witness ==
  /\ prev # Null
  /\ ~prev.result.success
  /\ prev.useCache /\ options.useCache
  /\ NormalizeUrl(prev.repoUrl) = NormalizeUrl(repoUrl)
  /\ cloneInvoked
  /\ CacheEmpty


\* a call is running with caching switched off
RunsUncached == pc \notin {"idle", "done"} /\ ~options.useCache

\* the entry for the locator of the call
EntryOfCall == cacheIndex[NormalizeUrl(repoUrl)]

\* when the call began the cache held an entry for its locator that
\* getCachedExtraction would have returned
UnexpiredEntry ==
  /\ EntryOfCall # Null
  /\ ~IsExpired(startTime, EntryOfCall.timestamp)
  /\ cacheFiles[EntryOfCall.filename] # Null

\* C37: a call with useCache false does not look into the cache (from the
\* cache stage it goes on to the validation with no result, whatever the
\* cache holds), never reaches the cache write, and leaves the index and the
\* content files as they are in every step.
C37_UncachedCallBypassesCache ==
  [][ RunsUncached =>
        /\ CacheUnchanged
        /\ (pc = "cache" => pc' = "validate" /\ result' = Null)
        /\ pc' # "cache_write"
        /\ (pc' = "done" /\ result'.success => cloneInvoked /\ "repoUrl" \in DOMAIN result'.data) ]_vars

\* a call without caching has cloned and extracted although the cache holds
\* an unexpired entry for its locator, and the entry is the one left by the
\* previous call
C37_Witness ==
  /\ pc = "done"
  /\ ~options.useCache
  /\ UnexpiredEntry
  /\ cloneInvoked
  /\ result.success
  /\ prev # Null /\ prev.result.success
  /\ cacheFiles[EntryOfCall.filename] = prev.result.data.content
  /\ result.data.content # prev.result.data.content


\* a candidate was refused for the character budget earlier in the walk
BudgetSkipped == SkippedWith("character limit reached") # {}

\* the candidate passes every check against the budgets as they are now
Fits(file) == file.statOk /\ FirstFailing(WalkChecks(file)) = 0

\* the place of a path in the sorted candidate list
PlaceOf(path) == CHOOSE i \in 1..Len(filteredFiles) : filteredFiles[i].path = path

\* C38: a skip for the character budget is one turn of the loop like any
\* other: the walk goes on with the next candidate; after such a skip each
\* later candidate is still checked (stat-ed while the file count allows) and
\* is included exactly when it passes the checks with its own section against
\* the budget that is left; the included files follow the sorted order of the
\* candidates.
C38_BudgetSkipDoesNotEndWalk ==
  [][ pc = "walk" /\ idx <= Len(filteredFiles) =>
        LET file == filteredFiles[idx]
        IN /\ (file.statOk /\ FirstFailing(WalkChecks(file)) = 4 =>
                 /\ pc' = "walk" /\ idx' = idx + 1
                 /\ Last(skippedFiles') = SkipRecord(file, "character limit reached")
                 /\ UNCHANGED <<outputChars, fileCount, processedFiles>>)
           /\ (BudgetSkipped =>
                 /\ pc' = "walk" /\ idx' = idx + 1
                 /\ (fileCount < options.maxFiles => StatCall(file) \in Range(fsCalls'))
                 /\ (Fits(file) <=> processedFiles' = Append(processedFiles, file.path))
                 /\ (~Fits(file) => processedFiles' = processedFiles))
           /\ \A a, b \in 1..Len(processedFiles') :
                a < b => PlaceOf(processedFiles'[a]) < PlaceOf(processedFiles'[b]) ]_vars

\* a candidate was refused for the budget and a later, smaller one was
\* included: the included files are the first and the third candidate
C38_Witness ==
  /\ pc = "walk"
  /\ Len(filteredFiles) = 3
  /\ idx = 4
  /\ processedFiles = <<filteredFiles[1].path, filteredFiles[3].path>>
  /\ Len(skippedFiles) = 1
  /\ skippedFiles[1] = SkipRecord(filteredFiles[2], "character limit reached")
  /\ options.maxFiles > fileCount - 1


\* call r has put its result and index and content file were written
Stored(r) == cacheCalls[r].stage \in {"put", "got"} /\ cacheCalls[r].stored

\* the step is the put of call r
PutBy(r) == cacheCalls[r].stage = "extracting" /\ cacheCalls'[r].stage = "put"

\* the entry call r has put is not older than the expiry window
StillFresh(r) == ~IsExpired(clock, cacheCalls[r].putAt)

OwnContent(r) == CacheResult(r).data.content

\* the two calls ran at the same time: each began before the other put
Overlapped(r, q) ==
  /\ cacheCalls[r].began < cacheCalls[q].putAt
  /\ cacheCalls[q].began < cacheCalls[r].putAt

====
